---------------------------- MODULE Spec2Model ----------------------------
(***************************************************************************)
(* UPS invoice analyzer: the record normalizer (src/src/parser.py,         *)
(* UPSInvoiceParser) and the aggregation engine (src/src/analyzer.py,      *)
(* InvoiceAnalyzer) as a state machine.                                    *)
(*                                                                         *)
(* Representation.  A DataFrame is a sequence of records (its rows, in     *)
(* index order).  A float is a fixed-point integer in hundredths (10.00 is *)
(* 1000, 0.5 kg is 50), so sums are exact.  Python's None and the float    *)
(* NaN that pandas puts in an empty cell are the two strings None and NaN, *)
(* which no cell text equals; pandas' isna() is IsNull.  A date is a       *)
(* record [y, m, d]; NaT is the record of zeros.                           *)
(***************************************************************************)
EXTENDS Integers, Sequences, FiniteSets, TLC

\* Bounds of the model.
MaxRows == 3
MaxN == 3

None == "<None>"
NaN == "<NaN>"
NaT == [y |-> 0, m |-> 0, d |-> 0]

IsNull(v) == v \in {None, NaN}

\* ------------------------------------------------------------------------
\* Generic sequence helpers (pandas primitives).
\* ------------------------------------------------------------------------

Range(s) == {s[i] : i \in DOMAIN s}

RECURSIVE SumSeq(_)
\* Series.sum() of a numeric column.
SumSeq(s) == IF s = <<>> THEN 0 ELSE Head(s) + SumSeq(Tail(s))

\* df[col]: one column of a table.
Column(rows, col) == [i \in DOMAIN rows |-> rows[i][col]]

\* Python's ordering of the strings used as group keys (code-point order:
\* digits before upper case before lower case).
StrOrder ==
    << "000", "001", "003", "004", "005", "007", "011", "031", "041",
       "1Z001", "1Z500", "1Z999", "353", "354", "355", "402", "704",
       "755", "857", "999", "ACC", "AT", "Address Correction", "BRK",
       "Brokerage Fee", "DAS", "DE", "Dom. Standard", "EXM", "FR", "FRT",
       "FSC", "GOV", "IMP", "INF", "INV1", "INV2", "MSC", "None", "PFR",
       "RDS", "RES", "RTN", "RTS", "Residential", "SHP", "Surge Fee",
       "TAX", "TB Standard", "TB Standard Undeliverable Return",
       "WW Express Saver", "WW Express Saver Undeliverable Return",
       "WW Standard", "WW Standard Undeliverable Return" >>

StrRank(s) == CHOOSE i \in DOMAIN StrOrder : StrOrder[i] = s

RECURSIVE SortStrings(_)
\* The sorted sequence of a set of strings (groupby sorts its keys).
SortStrings(S) ==
    IF S = {} THEN <<>>
    ELSE LET m == CHOOSE x \in S : \A y \in S : StrRank(x) <= StrRank(y)
         IN  <<m>> \o SortStrings(S \ {m})

RECURSIVE InsertDesc(_, _, _)
\* Insert index i into a sequence of indices ordered by non-increasing key,
\* after every index whose key is >= keys[i]: equal keys keep their order.
InsertDesc(sorted, i, keys) ==
    IF sorted = <<>> THEN <<i>>
    ELSE IF keys[Head(sorted)] >= keys[i]
         THEN <<Head(sorted)>> \o InsertDesc(Tail(sorted), i, keys)
         ELSE <<i>> \o sorted

RECURSIVE ArgSortDesc(_, _)
\* The first n indices of keys, ordered by non-increasing key.
ArgSortDesc(keys, n) ==
    IF n = 0 THEN <<>> ELSE InsertDesc(ArgSortDesc(keys, n - 1), n, keys)

\* sort_values(col, ascending=False) and the order of nlargest(keep="first"):
\* descending by col, rows of equal value in their original order.
SortDesc(rows, col) ==
    LET idx == ArgSortDesc(Column(rows, col), Len(rows))
    IN  [k \in DOMAIN rows |-> rows[idx[k]]]

Take(rows, n) == SubSeq(rows, 1, IF n < Len(rows) THEN n ELSE Len(rows))

\* ------------------------------------------------------------------------
\* Record normalizer: src/src/parser.py
\* ------------------------------------------------------------------------

\* Column positions of the modelled fields.  The fields left out
\* (order_reference, names, cities, streets, ...) are descriptive text
\* fields treated exactly like sender_country and recipient_country.
COLUMN_MAPPING ==
    [ invoice_number |-> 5, currency |-> 9, shipment_date |-> 11,
      package_indicator |-> 18, tracking_number |-> 20,
      actual_weight |-> 26, billed_weight |-> 28, service_code |-> 33,
      shipment_type |-> 34, shipment_subtype |-> 35,
      charge_category |-> 43, charge_code |-> 44,
      charge_description |-> 45, discount_amount |-> 51, net_amount |-> 52,
      sender_country |-> 73, recipient_country |-> 81 ]

SERVICE_CODES ==
    [ c \in {"007", "704", "004", "003", "005", "031", "041", "000", "353",
             "354", "355", "402", "755", "857", "001"} |->
        CASE c = "007" -> "WW Express Saver"
          [] c = "704" -> "WW Standard"
          [] c = "004" -> "TB Standard"
          [] c = "003" -> "TB Standard"
          [] c = "005" -> "TB Standard"
          [] c = "031" -> "TB Standard"
          [] c = "041" -> "TB Standard"
          [] c = "000" -> "Address Correction"
          [] c = "353" -> "TB Standard Undeliverable Return"
          [] c = "354" -> "TB Standard Undeliverable Return"
          [] c = "355" -> "TB Standard Undeliverable Return"
          [] c = "402" -> "TB Standard Undeliverable Return"
          [] c = "755" -> "WW Standard Undeliverable Return"
          [] c = "857" -> "WW Express Saver Undeliverable Return"
          [] c = "001" -> "Dom. Standard" ]

CHARGE_CATEGORIES ==
    [ c \in {"FRT", "FSC", "TAX", "ACC", "EXM", "INF", "MSC", "BRK", "GOV",
             "DAS", "RES"} |->
        CASE c = "FRT" -> "Freight"
          [] c = "FSC" -> "Fuel Surcharge"
          [] c = "TAX" -> "Tax (VAT)"
          [] c = "ACC" -> "Accessorial"
          [] c = "EXM" -> "Exemption/Credit"
          [] c = "INF" -> "Information Only"
          [] c = "MSC" -> "Miscellaneous"
          [] c = "BRK" -> "Brokerage"
          [] c = "GOV" -> "Government Charges"
          [] c = "DAS" -> "Delivery Area Surcharge"
          [] c = "RES" -> "Residential Surcharge" ]

\* pd.to_numeric: the cell texts that parse as numbers, in hundredths.
NumericText ==
    [ t \in {"0", "0.3", "0.5", "0.75", "1", "1.2", "2.00", "3.50", "5",
             "10.00", "50", "60", "-2.00"} |->
        CASE t = "0" -> 0
          [] t = "0.3" -> 30
          [] t = "0.5" -> 50
          [] t = "0.75" -> 75
          [] t = "1" -> 100
          [] t = "1.2" -> 120
          [] t = "2.00" -> 200
          [] t = "3.50" -> 350
          [] t = "5" -> 500
          [] t = "10.00" -> 1000
          [] t = "50" -> 5000
          [] t = "60" -> 6000
          [] t = "-2.00" -> -200 ]

\* pd.to_numeric(errors="coerce").fillna(0): a missing column (None), an
\* empty cell (NaN) and text that is no number all become 0.
ToNumericFillna0(cell) ==
    IF cell \in DOMAIN NumericText THEN NumericText[cell] ELSE 0

\* pd.to_datetime(errors="coerce"): the cell texts that parse as dates.
DateText ==
    [ t \in {"2024-12-30", "2024-12-31", "2025-01-01", "2025-01-06"} |->
        CASE t = "2024-12-30" -> [y |-> 2024, m |-> 12, d |-> 30]
          [] t = "2024-12-31" -> [y |-> 2024, m |-> 12, d |-> 31]
          [] t = "2025-01-01" -> [y |-> 2025, m |-> 1, d |-> 1]
          [] t = "2025-01-06" -> [y |-> 2025, m |-> 1, d |-> 6] ]

ToDatetime(cell) == IF cell \in DOMAIN DateText THEN DateText[cell] ELSE NaT

\* str.strip() on the cell texts that carry surrounding whitespace.
Strip(s) ==
    CASE s = " " -> ""
      [] s = " FRT " -> "FRT"
      [] s = "DE " -> "DE"
      [] OTHER -> s

\* astype(str) on an object column: str() of every element, so NaN becomes
\* the text "nan" and None the text "None".
AsTypeStr(cell) ==
    CASE cell = NaN -> "nan"
      [] cell = None -> "None"
      [] OTHER -> cell

\* df[col].astype(str).str.strip(), then replace({"nan": None, "": None}).
CleanString(cell) ==
    LET s == Strip(AsTypeStr(cell))
    IN  IF s \in {"nan", ""} THEN None ELSE s

\* A raw file is [width, rows, name]: read_csv(header=None, dtype=str) gives
\* every cell as text, or NaN where the cell is empty.  A field whose
\* position is beyond the file's width gets the scalar None.
Cell(file, row, f) ==
    IF COLUMN_MAPPING[f] < file.width THEN row[f] ELSE None

NumericCols == {"actual_weight", "billed_weight", "discount_amount", "net_amount"}
DateCols == {"shipment_date"}
StringCols ==
    {"tracking_number", "charge_category", "charge_code", "charge_description",
     "sender_country", "recipient_country", "service_code", "shipment_type",
     "shipment_subtype"}

_convert_types(file, row) ==
    [ f \in DOMAIN COLUMN_MAPPING |->
        IF f \in NumericCols THEN ToNumericFillna0(Cell(file, row, f))
        ELSE IF f \in DateCols THEN ToDatetime(Cell(file, row, f))
        ELSE IF f \in StringCols THEN CleanString(Cell(file, row, f))
        ELSE Cell(file, row, f) ]

\* Mutant of TotalChargeOf: the discount added to the net amount.
TotalChargeOf_PlusDiscount(r) == r.net_amount + r.discount_amount

\* total_charge of a converted row.
TotalChargeOf(r) == r.net_amount

\* Mutant of ServiceNameOf: the description used whatever the category.
ServiceNameOf_AnyCategory(r) ==
    IF ~IsNull(r.charge_description) THEN r.charge_description
    ELSE IF r.service_code \in DOMAIN SERVICE_CODES
         THEN SERVICE_CODES[r.service_code] ELSE "Other"

\* service_name of a converted row.
ServiceNameOf(r) ==
    IF r.charge_category = "FRT" /\ ~IsNull(r.charge_description)
       /\ Strip(r.charge_description) # ""
    THEN r.charge_description
    ELSE IF r.service_code \in DOMAIN SERVICE_CODES
         THEN SERVICE_CODES[r.service_code] ELSE "Other"

ChargeCategoryNameOf(r) ==
    IF r.charge_category \in DOMAIN CHARGE_CATEGORIES
    THEN CHARGE_CATEGORIES[r.charge_category] ELSE "Other"

_add_derived_fields(r, filename) ==
    [ invoice_number |-> r.invoice_number,
      currency |-> r.currency,
      shipment_date |-> r.shipment_date,
      package_indicator |-> r.package_indicator,
      tracking_number |-> r.tracking_number,
      actual_weight |-> r.actual_weight,
      billed_weight |-> r.billed_weight,
      service_code |-> r.service_code,
      shipment_type |-> r.shipment_type,
      shipment_subtype |-> r.shipment_subtype,
      charge_category |-> r.charge_category,
      charge_code |-> r.charge_code,
      charge_description |-> r.charge_description,
      discount_amount |-> r.discount_amount,
      net_amount |-> r.net_amount,
      sender_country |-> r.sender_country,
      recipient_country |-> r.recipient_country,
      source_file |-> filename,
      total_charge |-> TotalChargeOf(r),
      service_name |-> ServiceNameOf(r),
      charge_category_name |-> ChargeCategoryNameOf(r),
      is_package_line |-> (r.package_indicator = "1"),
      is_return |-> (r.shipment_type = "RTN"),
      weight_difference |-> r.billed_weight - r.actual_weight ]

\* The table parse_csv_content builds from a file that read_csv accepts.
parse_csv_content(file) ==
    [ i \in DOMAIN file.rows |->
        _add_derived_fields(_convert_types(file, file.rows[i]), file.name) ]

\* ------------------------------------------------------------------------
\* Aggregation engine: src/src/analyzer.py
\* ------------------------------------------------------------------------

RECURSIVE FirstNonNull(_)
\* GroupBy "first" on a text column: the first value that is not null, and
\* a null when the group has none.
FirstNonNull(vals) ==
    IF vals = <<>> THEN None
    ELSE IF ~IsNull(Head(vals)) THEN Head(vals)
    ELSE FirstNonNull(Tail(vals))

RECURSIVE FirstDate(_)
\* GroupBy "first" on a date column: the first date that is not NaT.
FirstDate(vals) ==
    IF vals = <<>> THEN NaT
    ELSE IF Head(vals) # NaT THEN Head(vals)
    ELSE FirstDate(Tail(vals))

\* df["total_charge"].sum()
TotalOfRows(table) == SumSeq(Column(table, "total_charge"))

\* df.groupby("tracking_number"): the keys in sorted order; rows whose key
\* is null belong to no group.
GroupKeys(rows, col) ==
    SortStrings({rows[i][col] : i \in DOMAIN rows} \ {None, NaN})

GroupOf(rows, col, k) == SelectSeq(rows, LAMBDA r : r[col] = k)

\* Mutant of FrtRows: every package-line row taken as a descriptor row.
FrtRows_AnyPackageLine(df) ==
    SelectSeq(df, LAMBDA r : r.package_indicator = "1")

\* frt_rows: the descriptor rows.
FrtRows(df) ==
    SelectSeq(df, LAMBDA r : r.package_indicator = "1" /\ r.charge_category = "FRT")

\* Mutant of PkgRows: every charge line taken as a package-line row.
PkgRows_AllLines(df) == df

\* pkg_rows: the package-line rows.
PkgRows(df) == SelectSeq(df, LAMBDA r : r.package_indicator = "1")

\* The "first" aggregation both branches share, over the rows g of one
\* tracking number.  Weights, the return flag and the source file are
\* never null, so their first value is that of the first row.
FirstFields(g) ==
    [ invoice_number |-> FirstNonNull(Column(g, "invoice_number")),
      shipment_date |-> FirstDate(Column(g, "shipment_date")),
      service_code |-> FirstNonNull(Column(g, "service_code")),
      actual_weight |-> g[1].actual_weight,
      billed_weight |-> g[1].billed_weight,
      sender_country |-> FirstNonNull(Column(g, "sender_country")),
      recipient_country |-> FirstNonNull(Column(g, "recipient_country")),
      shipment_type |-> FirstNonNull(Column(g, "shipment_type")),
      shipment_subtype |-> FirstNonNull(Column(g, "shipment_subtype")),
      is_return |-> g[1].is_return,
      source_file |-> g[1].source_file ]

\* Mutant of DescriptorServiceName: the rows' resolved service_name field.
DescriptorServiceName_Resolved(g) == FirstNonNull(Column(g, "service_name"))

\* The service_name of a shipment on the descriptor path: the aggregated
\* charge_description of its descriptor rows g.
DescriptorServiceName(g) == FirstNonNull(Column(g, "charge_description"))

\* shipment_info: one row per tracking number of the descriptor rows, or,
\* when the dataset has no descriptor row at all, of the package-line rows.
ShipmentInfo(df) ==
    IF FrtRows(df) # <<>>
    THEN LET keys == GroupKeys(FrtRows(df), "tracking_number")
         IN  [ i \in DOMAIN keys |->
                 LET g == GroupOf(FrtRows(df), "tracking_number", keys[i])
                 IN  [tracking_number |-> keys[i],
                      charge_description |->
                          FirstNonNull(Column(g, "charge_description")),
                      service_name |-> DescriptorServiceName(g)]
                     @@ FirstFields(g) ]
    ELSE LET keys == GroupKeys(PkgRows(df), "tracking_number")
         IN  [ i \in DOMAIN keys |->
                 LET g == GroupOf(PkgRows(df), "tracking_number", keys[i])
                 IN  [tracking_number |-> keys[i],
                      service_name |-> FirstNonNull(Column(g, "service_name"))]
                     @@ FirstFields(g) ]

\* Mutant of ChargeTotals: sums over the package-line rows only.
ChargeTotals_PackageLines(df, t) ==
    LET g == GroupOf(PkgRows(df), "tracking_number", t)
    IN  [ discount_amount |-> SumSeq(Column(g, "discount_amount")),
          net_amount |-> SumSeq(Column(g, "net_amount")),
          total_charge |-> SumSeq(Column(g, "total_charge")) ]

\* charge_totals for one tracking number: sums over ALL its rows.
ChargeTotals(df, t) ==
    LET g == GroupOf(df, "tracking_number", t)
    IN  [ discount_amount |-> SumSeq(Column(g, "discount_amount")),
          net_amount |-> SumSeq(Column(g, "net_amount")),
          total_charge |-> SumSeq(Column(g, "total_charge")) ]

\* The shipment table: shipment_info left-joined with charge_totals.
_aggregate_packages(df) ==
    IF df = <<>> THEN <<>>
    ELSE LET info == ShipmentInfo(df)
         IN  [ i \in DOMAIN info |->
                 info[i] @@ ChargeTotals(df, info[i].tracking_number) ]

\* Mutant of BreakdownGroups: null categories kept as a group of their own
\* (groupby(dropna=False)).
BreakdownGroups_KeepNull(df) ==
    LET keys == GroupKeys(df, "charge_category")
                  \o (IF \E i \in DOMAIN df : IsNull(df[i].charge_category)
                      THEN <<None>> ELSE <<>>)
    IN  [ i \in DOMAIN keys |->
            LET g == SelectSeq(df, LAMBDA r :
                         IF keys[i] = None THEN IsNull(r.charge_category)
                         ELSE r.charge_category = keys[i])
            IN  [ charge_category |-> keys[i],
                  charge_category_name |-> g[1].charge_category_name,
                  discount_amount |-> SumSeq(Column(g, "discount_amount")),
                  net_amount |-> SumSeq(Column(g, "net_amount")),
                  total_charge |-> SumSeq(Column(g, "total_charge")) ] ]

\* analyze_cost_breakdown before sorting: one row per charge category that
\* is not null (groupby drops null keys; charge_category_name is never
\* null and is a function of the category).
BreakdownGroups(df) ==
    LET keys == GroupKeys(df, "charge_category")
    IN  [ i \in DOMAIN keys |->
            LET g == GroupOf(df, "charge_category", keys[i])
            IN  [ charge_category |-> keys[i],
                  charge_category_name |-> g[1].charge_category_name,
                  discount_amount |-> SumSeq(Column(g, "discount_amount")),
                  net_amount |-> SumSeq(Column(g, "net_amount")),
                  total_charge |-> SumSeq(Column(g, "total_charge")) ] ]

\* Mutant of RoundDiv: the quotient truncated downwards instead of rounded.
RoundDiv_Floor(num, den) == num \div den

\* round(): num/den rounded to the nearest integer, halves to even (den > 0).
RoundDiv(num, den) ==
    LET q == num \div den
        r == num - q * den
    IN  IF 2 * r < den THEN q
        ELSE IF 2 * r > den THEN q + 1
        ELSE IF q % 2 = 0 THEN q ELSE q + 1

\* (total_charge / total * 100).round(2), in hundredths of a percent.  A
\* float division by zero raises nothing: it gives inf, -inf or NaN, kept
\* here as finite = FALSE with the sign (0 for NaN).
Percentage(charge, total) ==
    IF total > 0 THEN [finite |-> TRUE, value |-> RoundDiv(charge * 10000, total)]
    ELSE IF total < 0
         THEN [finite |-> TRUE, value |-> RoundDiv(-charge * 10000, -total)]
    ELSE [finite |-> FALSE,
          value |-> IF charge > 0 THEN 1 ELSE IF charge < 0 THEN -1 ELSE 0]

analyze_cost_breakdown(df) ==
    IF df = <<>> THEN <<>>
    ELSE LET breakdown == BreakdownGroups(df)
             total == SumSeq(Column(breakdown, "total_charge"))
             withPct == [ i \in DOMAIN breakdown |->
                            breakdown[i] @@
                            [percentage |->
                                Percentage(breakdown[i].total_charge, total)] ]
         IN  SortDesc(withPct, "total_charge")

\* A float quotient num/den that the code does not round, kept exact.
Ratio(num, den) == [num |-> num, den |-> den]

HAS_PYCOUNTRY == TRUE

\* _get_country_name: pycountry's name for a code, the code itself when
\* the lookup finds nothing.
_get_country_name(code) ==
    IF ~HAS_PYCOUNTRY THEN code
    ELSE CASE code = "DE" -> "Germany"
           [] code = "FR" -> "France"
           [] code = "AT" -> "Austria"
           [] OTHER -> code

\* groupby(col).agg(tracking_number count, total_charge sum): one row per
\* key that is not null, keys sorted.
CountAndCost(rows, col) ==
    LET keys == GroupKeys(rows, col)
    IN  [ i \in DOMAIN keys |->
            LET g == GroupOf(rows, col, keys[i])
            IN  [ key |-> keys[i], count |-> Len(g),
                  total_cost |-> TotalOfRows(g) ] ]

NoReturns == [summary |-> [empty |-> TRUE], by_reason |-> <<>>, by_country |-> <<>>]

\* analyze_returns() on the shipment table.
analyze_returns(packages) ==
    IF packages = <<>> THEN NoReturns
    ELSE LET returns == SelectSeq(packages, LAMBDA p : p.is_return = TRUE)
         IN  IF returns = <<>> THEN NoReturns
             ELSE [ summary |->
                      [ empty |-> FALSE,
                        total_returns |-> Len(returns),
                        total_return_cost |-> TotalOfRows(returns),
                        return_rate |-> Ratio(Len(returns) * 100, Len(packages)),
                        avg_return_cost |-> Ratio(TotalOfRows(returns), Len(returns)) ],
                    by_reason |->
                      LET t == CountAndCost(returns, "shipment_subtype")
                      IN  SortDesc([ i \in DOMAIN t |->
                                       [ reason |-> t[i].key, count |-> t[i].count,
                                         total_cost |-> t[i].total_cost ] ], "count"),
                    by_country |->
                      LET t == CountAndCost(returns, "sender_country")
                      IN  SortDesc([ i \in DOMAIN t |->
                                       IF HAS_PYCOUNTRY
                                       THEN [ country_code |-> t[i].key,
                                              return_count |-> t[i].count,
                                              return_cost |-> t[i].total_cost,
                                              country_name |-> _get_country_name(t[i].key) ]
                                       ELSE [ country_code |-> t[i].key,
                                              return_count |-> t[i].count,
                                              return_cost |-> t[i].total_cost ] ],
                                   "return_count") ]

\* The weight buckets: bins 0, 0.5, 1, 2, 5, 10, 20, 50, inf (in hundredths;
\* the last bucket has no upper edge) and their labels.
WeightBins == <<0, 50, 100, 200, 500, 1000, 2000, 5000>>
WeightLabels ==
    <<"0-0.5kg", "0.5-1kg", "1-2kg", "2-5kg", "5-10kg", "10-20kg", "20-50kg", "50kg+">>

\* pd.cut(billed_weight, bins, labels) with its defaults right=True,
\* include_lowest=False: bucket b is the interval (bins[b], bins[b+1]].
InBucket(w, b) ==
    /\ WeightBins[b] < w
    /\ b < Len(WeightBins) => w <= WeightBins[b + 1]

\* The buckets a weight is assigned to (none, for a weight pd.cut maps to NaN).
BucketsOf(w) == {b \in DOMAIN WeightBins : InBucket(w, b)}

\* The weight subset of analyze_weights.
WeightData(packages) ==
    SelectSeq(packages, LAMBDA p : p.billed_weight > 0 \/ p.actual_weight > 0)

RECURSIVE SeqOfSet(_)
\* The elements of a set of integers in increasing order.
SeqOfSet(S) ==
    IF S = {} THEN <<>>
    ELSE LET m == CHOOSE x \in S : \A y \in S : x <= y
         IN  <<m>> \o SeqOfSet(S \ {m})

NoWeights == [summary |-> [empty |-> TRUE], distribution |-> <<>>]

\* analyze_weights() on the shipment table.
analyze_weights(packages) ==
    IF packages = <<>> THEN NoWeights
    ELSE LET weight_data == WeightData(packages)
             actual == SumSeq(Column(weight_data, "actual_weight"))
             billed == SumSeq(Column(weight_data, "billed_weight"))
             \* groupby("weight_bucket", observed=True): the buckets that have
             \* rows, in bucket order; rows without a bucket are in no group
             used == SeqOfSet({b \in DOMAIN WeightBins :
                        \E i \in DOMAIN weight_data :
                            b \in BucketsOf(weight_data[i].billed_weight)})
         IN  IF weight_data = <<>> THEN NoWeights
             ELSE [ summary |->
                      [ empty |-> FALSE,
                        total_actual_weight |-> actual,
                        total_billed_weight |-> billed,
                        avg_actual_weight |-> Ratio(actual, Len(weight_data)),
                        avg_billed_weight |-> Ratio(billed, Len(weight_data)),
                        weight_premium |->
                            IF actual > 0 THEN Ratio((billed - actual) * 100, actual)
                            ELSE Ratio(0, 1),
                        packages_with_dim_weight |->
                            Len(SelectSeq(weight_data, LAMBDA p :
                                    p.billed_weight - p.actual_weight > 0)) ],
                    distribution |->
                      [ i \in DOMAIN used |->
                          LET g == SelectSeq(weight_data, LAMBDA p :
                                       used[i] \in BucketsOf(p.billed_weight))
                          IN  [ weight_range |-> WeightLabels[used[i]],
                                package_count |-> Len(g),
                                total_cost |-> TotalOfRows(g) ] ],
                    detail |->
                      [ i \in DOMAIN weight_data |->
                          [ tracking_number |-> weight_data[i].tracking_number,
                            actual_weight |-> weight_data[i].actual_weight,
                            billed_weight |-> weight_data[i].billed_weight,
                            weight_diff |-> weight_data[i].billed_weight
                                              - weight_data[i].actual_weight ] ] ]

\* Mutant of NLargest: the first n rows, unsorted (head(n)).
NLargest_Head(rows, n, col) == Take(rows, n)

\* DataFrame.nlargest(n, col): the n rows of greatest col, in descending
\* order, rows of equal value in their original order; none when n <= 0.
NLargest(rows, n, col) ==
    IF n <= 0 THEN <<>> ELSE Take(SortDesc(rows, col), n)

\* The columns get_top_expenses keeps (those of desired_cols the shipment
\* table has).
TopColumns(p) ==
    [ tracking_number |-> p.tracking_number,
      shipment_date |-> p.shipment_date,
      recipient_country |-> p.recipient_country,
      sender_country |-> p.sender_country,
      service_name |-> p.service_name,
      billed_weight |-> p.billed_weight,
      total_charge |-> p.total_charge,
      shipment_type |-> p.shipment_type,
      is_return |-> p.is_return ]

\* get_top_expenses(n) on the shipment table.
get_top_expenses(packages, n) ==
    IF packages = <<>> THEN <<>>
    ELSE LET top == NLargest(packages, n, "total_charge")
         IN  [ i \in DOMAIN top |-> TopColumns(top[i]) ]

\* A date as a number that orders dates.
DateOrd(d) == d.y * 10000 + d.m * 100 + d.d

\* filter_data's arguments; NaT stands for a date that is not given (None)
\* and {} for a list that is None or empty: both are falsy in the code.
DefaultArgs ==
    [ start_date |-> NaT, end_date |-> NaT, countries |-> {}, services |-> {},
      returns_only |-> FALSE ]

\* Mutant of filter_data: the return filter applied whatever returns_only is.
filter_data_AlwaysReturns(df, args) ==
    SelectSeq(df, LAMBDA r : r.is_return = TRUE)

\* Mutant of filter_data: returns_only keeps the lines that are NOT returns.
filter_data_Negated(df, args) ==
    SelectSeq(df, LAMBDA r : args.returns_only => r.is_return = FALSE)

\* Mutant of filter_data: the end date taken as an exclusive bound.
filter_data_ExclusiveEnd(df, args) ==
    SelectSeq(df, LAMBDA r :
        /\ args.start_date # NaT =>
              r.shipment_date # NaT /\ DateOrd(r.shipment_date) >= DateOrd(args.start_date)
        /\ args.end_date # NaT =>
              r.shipment_date # NaT /\ DateOrd(r.shipment_date) < DateOrd(args.end_date)
        /\ args.countries # {} => r.recipient_country \in args.countries
        /\ args.services # {} => r.service_code \in args.services
        /\ args.returns_only => r.is_return = TRUE)

\* The rows filter_data keeps.  A comparison with NaT is False and isin()
\* of a null is False, so a row without the value fails a given predicate.
filter_data(df, args) ==
    SelectSeq(df, LAMBDA r :
        /\ args.start_date # NaT =>
              r.shipment_date # NaT /\ DateOrd(r.shipment_date) >= DateOrd(args.start_date)
        /\ args.end_date # NaT =>
              r.shipment_date # NaT /\ DateOrd(r.shipment_date) <= DateOrd(args.end_date)
        /\ args.countries # {} => r.recipient_country \in args.countries
        /\ args.services # {} => r.service_code \in args.services
        /\ args.returns_only => r.is_return = TRUE)

\* ------------------------------------------------------------------------
\* Calendar arithmetic behind strftime
\* ------------------------------------------------------------------------

IsLeap(y) == (y % 4 = 0 /\ y % 100 # 0) \/ y % 400 = 0

\* The days of year y before month m.
DaysBeforeMonth(y, m) ==
    <<0, 31, 59, 90, 120, 151, 181, 212, 243, 273, 304, 334>>[m]
        + (IF m > 2 /\ IsLeap(y) THEN 1 ELSE 0)

\* The day of the year, 1 January being 0.
YearDay(d) == DaysBeforeMonth(d.y, d.m) + d.d - 1

\* The days from 0001-01-01 to 1 January of year y.
DaysBeforeYear(y) ==
    LET p == y - 1 IN p * 365 + p \div 4 - p \div 100 + p \div 400

\* The day of the week, Monday being 0 (0001-01-01 is a Monday).
Weekday(d) == (DaysBeforeYear(d.y) + YearDay(d)) % 7

\* strftime("%W"): the week of the year, weeks starting on Monday and the
\* days before the year's first Monday being week 0.
WeekOfYear(d) == (YearDay(d) + 7 - Weekday(d)) \div 7

\* The period label of a date: strftime("%Y-W%W") for period "week",
\* strftime("%Y-%m") otherwise.  The label "2024-W53" is the number 202453
\* and "2024-12" the number 202412; the labels are zero-padded, so their
\* text order is the order of these numbers.
PeriodOf(d, period) ==
    IF period = "week" THEN d.y * 100 + WeekOfYear(d) ELSE d.y * 100 + d.m

\* ------------------------------------------------------------------------
\* Further grouping primitives
\* ------------------------------------------------------------------------

RECURSIVE SortPairs(_)
\* The sorted sequence of a set of pairs of strings.
SortPairs(S) ==
    IF S = {} THEN <<>>
    ELSE LET m == CHOOSE x \in S : \A y \in S :
                      \/ StrRank(x[1]) < StrRank(y[1])
                      \/ x[1] = y[1] /\ StrRank(x[2]) <= StrRank(y[2])
         IN  <<m>> \o SortPairs(S \ {m})

\* groupby([c1, c2]): the key pairs in sorted order; a row with a null in
\* either key belongs to no group.
PairKeys(rows, c1, c2) ==
    SortPairs({ <<rows[i][c1], rows[i][c2]>> :
                  i \in {j \in DOMAIN rows :
                           ~IsNull(rows[j][c1]) /\ ~IsNull(rows[j][c2])} })

\* Series.nunique(): the number of distinct values that are not null.
NUnique(vals) == Cardinality(Range(vals) \ {None, NaN})

\* df["net_amount"].sum()
NetOf(rows) == SumSeq(Column(rows, "net_amount"))

\* The country name column added to a by-country table.
CountryNameOf(code) ==
    IF HAS_PYCOUNTRY THEN _get_country_name(code) ELSE code

\* ------------------------------------------------------------------------
\* get_summary
\* ------------------------------------------------------------------------

NoDateRange == [present |-> FALSE]

\* date_range: the least and greatest shipment date of the charge lines.
DateRangeOf(df) ==
    LET dates == {df[i].shipment_date : i \in DOMAIN df} \ {NaT}
    IN  IF dates = {} THEN NoDateRange
        ELSE [ present |-> TRUE,
               first |-> CHOOSE d \in dates :
                             \A e \in dates : DateOrd(d) <= DateOrd(e),
               last |-> CHOOSE d \in dates :
                            \A e \in dates : DateOrd(d) >= DateOrd(e) ]

\* value_counts().index[0] of the shipments' recipient countries: the most
\* frequent country that is not null, the first met among equally frequent
\* ones; None when there is none.
TopDestination(packages) ==
    LET cs == SelectSeq(Column(packages, "recipient_country"),
                        LAMBDA c : ~IsNull(c))
        Count(c) == Len(SelectSeq(cs, LAMBDA x : x = c))
    IN  IF cs = <<>> THEN None
        ELSE cs[CHOOSE i \in DOMAIN cs :
                   /\ \A j \in DOMAIN cs : Count(cs[j]) <= Count(cs[i])
                   /\ \A j \in 1..(i - 1) : Count(cs[j]) < Count(cs[i])]

\* charge_totals.get(c, 0)
CategoryTotal(df, c) == TotalOfRows(GroupOf(df, "charge_category", c))

EmptySummary ==
    [ total_invoices |-> 0, total_packages |-> 0, total_cost |-> 0,
      total_freight |-> 0, total_fuel_surcharge |-> 0, total_tax |-> 0,
      total_accessorial |-> 0, avg_cost_per_package |-> Ratio(0, 1),
      total_weight_kg |-> 0, date_range |-> NoDateRange,
      top_destination_country |-> None, return_rate |-> Ratio(0, 1),
      currency |-> "EUR" ]

\* Mutant of GuardedRatio: the quotient without the guard.
GuardedRatio_Unguarded(num, n) == Ratio(num, n)

\* "x / len(packages) if len(packages) > 0 else 0" of get_summary
GuardedRatio(num, n) == IF n > 0 THEN Ratio(num, n) ELSE Ratio(0, 1)

\* get_summary() on the charge lines df and the shipment table.
get_summary(df, packages) ==
    IF df = <<>> THEN EmptySummary
    ELSE LET return_count == Len(SelectSeq(packages, LAMBDA p : p.is_return))
         IN  [ total_invoices |-> NUnique(Column(df, "invoice_number")),
               total_packages |-> Len(packages),
               total_cost |-> TotalOfRows(packages),
               total_freight |-> CategoryTotal(df, "FRT"),
               total_fuel_surcharge |-> CategoryTotal(df, "FSC"),
               total_tax |-> CategoryTotal(df, "TAX"),
               total_accessorial |-> CategoryTotal(df, "ACC"),
               avg_cost_per_package |->
                   GuardedRatio(TotalOfRows(packages), Len(packages)),
               total_weight_kg |-> SumSeq(Column(packages, "billed_weight")),
               date_range |-> DateRangeOf(df),
               top_destination_country |-> TopDestination(packages),
               return_rate |->
                   GuardedRatio(return_count * 100, Len(packages)),
               currency |->
                   IF \E i \in DOMAIN df : ~IsNull(df[i].currency)
                   THEN FirstNonNull(Column(df, "currency")) ELSE "EUR" ]

\* ------------------------------------------------------------------------
\* analyze_by_destination, analyze_trends, analyze_services
\* ------------------------------------------------------------------------

\* analyze_by_destination() on the shipment table.  Averages and rates are
\* rounded to 2 decimals: hundredths, and hundredths of a percent.
analyze_by_destination(packages) ==
    LET valid_packages ==
            SelectSeq(packages, LAMBDA p : ~IsNull(p.recipient_country))
        keys == GroupKeys(valid_packages, "recipient_country")
    IN  IF packages = <<>> \/ valid_packages = <<>> THEN <<>>
        ELSE SortDesc(
               [ i \in DOMAIN keys |->
                   LET g == GroupOf(valid_packages, "recipient_country", keys[i])
                       returns == Len(SelectSeq(g, LAMBDA p : p.is_return))
                   IN  [ country_code |-> keys[i],
                         package_count |-> Len(g),
                         total_cost |-> TotalOfRows(g),
                         total_weight |-> SumSeq(Column(g, "billed_weight")),
                         return_count |-> returns,
                         country_name |-> CountryNameOf(keys[i]),
                         avg_cost_per_package |-> RoundDiv(TotalOfRows(g), Len(g)),
                         return_rate |-> RoundDiv(returns * 10000, Len(g)) ] ],
               "total_cost")

\* analyze_trends(period) on the shipment table.
analyze_trends(packages, period) ==
    LET dated == SelectSeq(packages, LAMBDA p : p.shipment_date # NaT)
        keys == SeqOfSet({PeriodOf(dated[i].shipment_date, period) :
                            i \in DOMAIN dated})
    IN  IF packages = <<>> \/ dated = <<>> THEN <<>>
        ELSE [ i \in DOMAIN keys |->
                 LET g == SelectSeq(dated, LAMBDA p :
                              PeriodOf(p.shipment_date, period) = keys[i])
                 IN  [ period |-> keys[i],
                       package_count |-> Len(g),
                       total_cost |-> TotalOfRows(g),
                       total_weight |-> SumSeq(Column(g, "billed_weight")),
                       avg_cost_per_package |-> RoundDiv(TotalOfRows(g), Len(g)) ] ]

\* analyze_services() on the shipment table.
analyze_services(packages) ==
    LET keys == PairKeys(packages, "service_code", "service_name")
    IN  IF packages = <<>> THEN <<>>
        ELSE SortDesc(
               [ i \in DOMAIN keys |->
                   LET g == SelectSeq(packages, LAMBDA p :
                                /\ p.service_code = keys[i][1]
                                /\ p.service_name = keys[i][2])
                   IN  [ service_code |-> keys[i][1],
                         service_name |-> keys[i][2],
                         package_count |-> Len(g),
                         total_cost |-> TotalOfRows(g),
                         total_weight |-> SumSeq(Column(g, "billed_weight")),
                         avg_cost_per_package |-> RoundDiv(TotalOfRows(g), Len(g)) ] ],
               "total_cost")

\* ------------------------------------------------------------------------
\* analyze_duties_and_brokerage, analyze_accessorials
\* ------------------------------------------------------------------------

\* A by-country table: per-tracking rows grouped by recipient_country (rows
\* without a country belong to no group), each group's row count and the
\* sum of its cost column.
CountryGroups(perTracking, cost) ==
    LET keys == GroupKeys(perTracking, "recipient_country")
    IN  [ i \in DOMAIN keys |->
            LET g == GroupOf(perTracking, "recipient_country", keys[i])
            IN  [ country_code |-> keys[i],
                  shipment_count |-> Len(g),
                  total_cost |-> SumSeq(Column(g, cost)),
                  country_name |-> CountryNameOf(keys[i]) ] ]

NoDuties ==
    [ summary |-> [empty |-> TRUE], by_charge_type |-> <<>>,
      by_country |-> <<>>, detail |-> <<>> ]

\* country_data: one row per tracking number of the import lines.  (The
\* recipient name and city and the order reference, aggregated the same
\* way, are not modelled.)
ImportCountryData(imp_data) ==
    LET keys == GroupKeys(imp_data, "tracking_number")
    IN  [ i \in DOMAIN keys |->
            LET g == GroupOf(imp_data, "tracking_number", keys[i])
            IN  [ tracking_number |-> keys[i],
                  recipient_country |-> FirstNonNull(Column(g, "recipient_country")),
                  shipment_date |-> FirstDate(Column(g, "shipment_date")),
                  net_amount |-> NetOf(g) ] ]

\* Mutant of ImportLines: every charge line taken as an import line.
ImportLines_All(df) == df

\* imp_data: the charge lines with shipment subtype IMP
ImportLines(df) == SelectSeq(df, LAMBDA r : r.shipment_subtype = "IMP")

\* analyze_duties_and_brokerage() on the charge lines.
analyze_duties_and_brokerage(df) ==
    LET imp_data == ImportLines(df)
        \* unique() keeps a null tracking number as one value
        imp_trackings == Range(Column(imp_data, "tracking_number"))
        total_cost == NetOf(imp_data)
        brokerage_cost ==
            NetOf(SelectSeq(imp_data, LAMBDA r : r.charge_category = "BRK"))
        customs_cost ==
            NetOf(SelectSeq(imp_data, LAMBDA r : r.charge_category = "GOV"))
        cats == GroupKeys(imp_data, "charge_category")
        country_data == ImportCountryData(imp_data)
        countries == CountryGroups(country_data, "net_amount")
    IN  IF df = <<>> \/ imp_data = <<>> THEN NoDuties
        ELSE [ summary |->
                 [ empty |-> FALSE,
                   total_cost |-> total_cost,
                   shipment_count |-> Cardinality(imp_trackings),
                   brokerage_cost |-> brokerage_cost,
                   customs_cost |-> customs_cost,
                   other_cost |-> total_cost - brokerage_cost - customs_cost,
                   avg_cost_per_shipment |->
                       Ratio(total_cost, Cardinality(imp_trackings)) ],
               by_charge_type |->
                 SortDesc(
                   [ i \in DOMAIN cats |->
                       LET g == GroupOf(imp_data, "charge_category", cats[i])
                       IN  [ charge_category |-> cats[i],
                             charge_name |-> g[1].charge_category_name,
                             total_cost |-> NetOf(g),
                             shipment_count |->
                                 NUnique(Column(g, "tracking_number")) ] ],
                   "total_cost"),
               by_country |->
                 SortDesc(
                   [ i \in DOMAIN countries |->
                       countries[i] @@
                       [ avg_cost_per_shipment |->
                           RoundDiv(countries[i].total_cost,
                                    countries[i].shipment_count) ] ],
                   "total_cost"),
               detail |->
                 SortDesc(
                   [ i \in DOMAIN country_data |->
                       LET t == country_data[i].tracking_number
                           Of(c) == NetOf(SelectSeq(imp_data, LAMBDA r :
                                        /\ r.tracking_number = t
                                        /\ r.charge_category = c))
                       IN  [ tracking_number |-> t,
                             country |-> country_data[i].recipient_country,
                             shipment_date |-> country_data[i].shipment_date,
                             total_cost |-> country_data[i].net_amount,
                             BRK |-> Of("BRK"),
                             GOV |-> Of("GOV") ] ],
                   "total_cost") ]

NoAccessorials ==
    [ summary |-> [empty |-> TRUE], by_charge_code |-> <<>>,
      by_country |-> <<>>, trends |-> <<>> ]

\* acc_with_country: one row per tracking number of the accessorial lines,
\* with the first recipient country any charge line of that tracking number
\* carries.
AccWithCountry(df, acc_data) ==
    LET keys == GroupKeys(acc_data, "tracking_number")
    IN  [ i \in DOMAIN keys |->
            [ tracking_number |-> keys[i],
              acc_cost |-> NetOf(GroupOf(acc_data, "tracking_number", keys[i])),
              recipient_country |->
                  FirstNonNull(Column(GroupOf(df, "tracking_number", keys[i]),
                                      "recipient_country")) ] ]

\* analyze_accessorials() on the charge lines.
analyze_accessorials(df) ==
    LET acc_data == SelectSeq(df, LAMBDA r : r.charge_category = "ACC")
        total_cost == NetOf(acc_data)
        unique_trackings == NUnique(Column(acc_data, "tracking_number"))
        CodeCost(codes) ==
            NetOf(SelectSeq(acc_data, LAMBDA r : r.charge_code \in codes))
        codes == PairKeys(acc_data, "charge_code", "charge_description")
        countries == CountryGroups(AccWithCountry(df, acc_data), "acc_cost")
        dated == SelectSeq(acc_data, LAMBDA r : r.shipment_date # NaT)
        periods == SeqOfSet({PeriodOf(dated[i].shipment_date, "month") :
                               i \in DOMAIN dated})
    IN  IF df = <<>> \/ acc_data = <<>> THEN NoAccessorials
        ELSE [ summary |->
                 [ empty |-> FALSE,
                   total_cost |-> total_cost,
                   charge_count |-> Len(acc_data),
                   shipment_count |-> unique_trackings,
                   residential_cost |-> CodeCost({"RES"}),
                   surge_cost |-> CodeCost({"PFR", "PFC"}),
                   area_surcharge_cost |->
                       CodeCost({"RDS", "ESD", "LDS", "HIS", "AKS"}),
                   avg_per_shipment |->
                       IF unique_trackings > 0
                       THEN Ratio(total_cost, unique_trackings)
                       ELSE Ratio(0, 1) ],
               by_charge_code |->
                 SortDesc(
                   [ i \in DOMAIN codes |->
                       LET g == SelectSeq(acc_data, LAMBDA r :
                                    /\ r.charge_code = codes[i][1]
                                    /\ r.charge_description = codes[i][2])
                       IN  [ charge_code |-> codes[i][1],
                             description |-> codes[i][2],
                             total_cost |-> NetOf(g),
                             shipment_count |->
                                 NUnique(Column(g, "tracking_number")) ] ],
                   "total_cost"),
               by_country |->
                 SortDesc(
                   [ i \in DOMAIN countries |->
                       countries[i] @@
                       [ avg_per_shipment |->
                           RoundDiv(countries[i].total_cost,
                                    countries[i].shipment_count) ] ],
                   "total_cost"),
               trends |->
                 [ i \in DOMAIN periods |->
                     LET g == SelectSeq(dated, LAMBDA r :
                                  PeriodOf(r.shipment_date, "month") = periods[i])
                     IN  [ period |-> periods[i],
                           total_cost |-> NetOf(g),
                           shipment_count |->
                               NUnique(Column(g, "tracking_number")) ] ] ]

\* ------------------------------------------------------------------------
\* State
\* ------------------------------------------------------------------------

VARIABLES
    upload,       \* the input handed to the normalizer: one raw file, or in
                  \* the batch specification the file objects and the batch
    parsed_data,  \* UPSInvoiceParser.parsed_data: [set, table]; None is set = FALSE
    engines,      \* the InvoiceAnalyzer instances, in order of construction:
                  \* engine 1 wraps the normalizer's table and engine 2 is
                  \* the latest result of filter_data.  Each is [data,
                  \* _packages, runs, parent, args, source]: _packages is
                  \* [filled, table] and None is filled = FALSE; runs
                  \* counts the instance's runs of _aggregate_packages;
                  \* parent, args and source record the filter_data call
                  \* that made the instance (the engine called, its
                  \* arguments and the dataset that engine wrapped),
                  \* parent = 0 for engine 1
    last          \* the last public call and what it returned

vars == <<upload, parsed_data, engines, last>>

NoCache == [filled |-> FALSE, table |-> <<>>]
NoCall == [op |-> "none"]

\* A full-width export has every mapped column (the last is 175).
FullWidth == 176

DefaultRow ==
    [ invoice_number |-> "INV1", currency |-> "EUR",
      shipment_date |-> "2024-12-31", package_indicator |-> "1",
      tracking_number |-> "1Z001", actual_weight |-> "1",
      billed_weight |-> "1.2", service_code |-> "004",
      shipment_type |-> "SHP", shipment_subtype |-> NaN,
      charge_category |-> "FRT", charge_code |-> "011",
      charge_description |-> "TB Standard", discount_amount |-> "0.5",
      net_amount |-> "10.00", sender_country |-> "DE",
      recipient_country |-> "FR" ]

\* All files of 1..MaxRows rows drawn from a set of rows.  (read_csv raises
\* on content without any row, so a parsed file has at least one.)
FilesOf(rowSet, width) ==
    { [width |-> width, name |-> "a.csv", rows |-> rs] :
        rs \in UNION { [1..n -> rowSet] : n \in 1..MaxRows } }

InitWith(files) ==
    /\ upload \in files
    /\ parsed_data = [set |-> FALSE, table |-> <<>>]
    /\ engines = <<>>
    /\ last = NoCall

\* ------------------------------------------------------------------------
\* Operations
\* ------------------------------------------------------------------------

\* UPSInvoiceParser.parse_csv_content(content, filename); it returns the
\* table it stores in parsed_data.
ParseCsvContent ==
    /\ parsed_data' = [set |-> TRUE, table |-> parse_csv_content(upload)]
    /\ last' = [op |-> "parse_csv_content"]
    /\ UNCHANGED <<upload, engines>>

\* InvoiceAnalyzer(data) on the normalizer's table
NewAnalyzer ==
    /\ parsed_data.set
    /\ engines = <<>>
    /\ engines' = << [data |-> parsed_data.table, _packages |-> NoCache,
                      runs |-> 0, parent |-> 0, args |-> DefaultArgs,
                      source |-> <<>>] >>
    /\ last' = [op |-> "InvoiceAnalyzer", engine |-> 1]
    /\ UNCHANGED <<upload, parsed_data>>

\* The packages property: the cached table, computed on the first access.
PackagesOf(e) ==
    IF e._packages.filled THEN e._packages.table ELSE _aggregate_packages(e.data)

\* Mutant of Accessed: the table recomputed on every access.
Accessed_Recompute(i) ==
    [engines EXCEPT ![i]._packages =
                        [filled |-> TRUE,
                         table |-> _aggregate_packages(engines[i].data)],
                    ![i].runs = @ + 1]

\* engines after engine i has read its packages property: when the cache
\* is None, _aggregate_packages runs and its result is stored.
Accessed(i) ==
    IF engines[i]._packages.filled THEN engines
    ELSE [engines EXCEPT ![i]._packages =
                             [filled |-> TRUE,
                              table |-> _aggregate_packages(engines[i].data)],
                         ![i].runs = @ + 1]

\* engine.packages
Packages(i) ==
    /\ i \in DOMAIN engines
    /\ engines' = Accessed(i)
    /\ last' = [op |-> "packages", engine |-> i,
                cached |-> engines[i]._packages.filled,
                result |-> PackagesOf(engines[i])]
    /\ UNCHANGED <<upload, parsed_data>>

\* engine.analyze_cost_breakdown()
AnalyzeCostBreakdown(i) ==
    /\ i \in DOMAIN engines
    /\ last' = [op |-> "analyze_cost_breakdown", engine |-> i,
                result |-> analyze_cost_breakdown(engines[i].data)]
    /\ UNCHANGED <<upload, parsed_data, engines>>

\* engine.analyze_returns()
AnalyzeReturns(i) ==
    /\ i \in DOMAIN engines
    /\ engines' = Accessed(i)
    /\ last' = [op |-> "analyze_returns", engine |-> i,
                result |-> analyze_returns(PackagesOf(engines[i]))]
    /\ UNCHANGED <<upload, parsed_data>>

\* engine.analyze_weights()
AnalyzeWeights(i) ==
    /\ i \in DOMAIN engines
    /\ engines' = Accessed(i)
    /\ last' = [op |-> "analyze_weights", engine |-> i,
                result |-> analyze_weights(PackagesOf(engines[i]))]
    /\ UNCHANGED <<upload, parsed_data>>

\* engine.get_top_expenses(n)
GetTopExpenses(i, n) ==
    /\ i \in DOMAIN engines
    /\ engines' = Accessed(i)
    /\ last' = [op |-> "get_top_expenses", engine |-> i, n |-> n,
                result |-> get_top_expenses(PackagesOf(engines[i]), n)]
    /\ UNCHANGED <<upload, parsed_data>>

\* Mutant of FilterData: the rows filtered in place, the engine called
\* left wrapping the rows kept.
FilterData_InPlace(i, args) ==
    /\ i \in DOMAIN engines
    /\ engines' = << [engines[1] EXCEPT
                         !.data = IF i = 1 THEN filter_data(@, args) ELSE @],
                     [ data |-> filter_data(engines[i].data, args),
                       _packages |-> NoCache, runs |-> 0, parent |-> i,
                       args |-> args, source |-> engines[i].data ] >>
    /\ last' = [op |-> "filter_data", engine |-> i, args |-> args]
    /\ UNCHANGED <<upload, parsed_data>>

\* Mutant of FilterData: the rows taken from the original engine's dataset,
\* whichever engine is called.
FilterData_FromOriginal(i, args) ==
    /\ i \in DOMAIN engines
    /\ engines' = << engines[1],
                     [ data |-> filter_data(engines[1].data, args),
                       _packages |-> NoCache, runs |-> 0, parent |-> i,
                       args |-> args,
                       source |-> engines[i].data ] >>
    /\ last' = [op |-> "filter_data", engine |-> i, args |-> args]
    /\ UNCHANGED <<upload, parsed_data>>

\* engine.filter_data(...): a new instance over the rows kept, with an
\* empty cache; the caller keeps it as engine 2.
FilterData(i, args) ==
    /\ i \in DOMAIN engines
    /\ engines' = << engines[1],
                     [ data |-> filter_data(engines[i].data, args),
                       _packages |-> NoCache, runs |-> 0, parent |-> i,
                       args |-> args,
                       source |-> engines[i].data ] >>
    /\ last' = [op |-> "filter_data", engine |-> i, args |-> args]
    /\ UNCHANGED <<upload, parsed_data>>

\* engines after engine i has run an operation that returns early, before
\* it reads the packages property, when its dataset is empty.
AccessedUnlessEmpty(i) ==
    IF engines[i].data = <<>> THEN engines ELSE Accessed(i)

\* engine.get_summary()
GetSummary(i) ==
    /\ i \in DOMAIN engines
    /\ engines' = AccessedUnlessEmpty(i)
    /\ last' = [op |-> "get_summary", engine |-> i,
                result |-> get_summary(engines[i].data, PackagesOf(engines[i]))]
    /\ UNCHANGED <<upload, parsed_data>>

\* engine.analyze_by_destination()
AnalyzeByDestination(i) ==
    /\ i \in DOMAIN engines
    /\ engines' = Accessed(i)
    /\ last' = [op |-> "analyze_by_destination", engine |-> i,
                result |-> analyze_by_destination(PackagesOf(engines[i]))]
    /\ UNCHANGED <<upload, parsed_data>>

\* engine.analyze_trends(period)
AnalyzeTrends(i, period) ==
    /\ i \in DOMAIN engines
    /\ engines' = Accessed(i)
    /\ last' = [op |-> "analyze_trends", engine |-> i, period |-> period,
                result |-> analyze_trends(PackagesOf(engines[i]), period)]
    /\ UNCHANGED <<upload, parsed_data>>

\* engine.analyze_services()
AnalyzeServices(i) ==
    /\ i \in DOMAIN engines
    /\ engines' = Accessed(i)
    /\ last' = [op |-> "analyze_services", engine |-> i,
                result |-> analyze_services(PackagesOf(engines[i]))]
    /\ UNCHANGED <<upload, parsed_data>>

\* engine.analyze_duties_and_brokerage()
AnalyzeDutiesAndBrokerage(i) ==
    /\ i \in DOMAIN engines
    /\ last' = [op |-> "analyze_duties_and_brokerage", engine |-> i,
                result |-> analyze_duties_and_brokerage(engines[i].data)]
    /\ UNCHANGED <<upload, parsed_data, engines>>

\* engine.analyze_accessorials()
AnalyzeAccessorials(i) ==
    /\ i \in DOMAIN engines
    /\ last' = [op |-> "analyze_accessorials", engine |-> i,
                result |-> analyze_accessorials(engines[i].data)]
    /\ UNCHANGED <<upload, parsed_data, engines>>

\* ------------------------------------------------------------------------
\* Specification for the money claims: files whose rows vary in tracking
\* number, package-line flag, charge category, description and amount.
\* ------------------------------------------------------------------------

MoneyKinds ==
    { [package_indicator |-> "1", charge_category |-> "FRT",
       charge_description |-> "TB Standard", net_amount |-> "10.00"],
      [package_indicator |-> "1", charge_category |-> "FRT",
       charge_description |-> NaN, net_amount |-> "2.00"],
      [package_indicator |-> "1", charge_category |-> "ACC",
       charge_description |-> "Residential", net_amount |-> "3.50"],
      [package_indicator |-> "0", charge_category |-> "ACC",
       charge_description |-> "Residential", net_amount |-> "3.50"] }

MoneyRows ==
    { [DefaultRow EXCEPT !.tracking_number = t,
                         !.package_indicator = k.package_indicator,
                         !.charge_category = k.charge_category,
                         !.charge_description = k.charge_description,
                         !.net_amount = k.net_amount] :
        t \in {"1Z001", "1Z999"}, k \in MoneyKinds }
    \cup { [DefaultRow EXCEPT !.tracking_number = NaN,
                              !.package_indicator = "0",
                              !.charge_category = "FSC",
                              !.net_amount = "0.75"],
           [DefaultRow EXCEPT !.package_indicator = "0",
                              !.charge_category = " ",
                              !.charge_description = NaN,
                              !.net_amount = "1"] }

InitMoney == InitWith(FilesOf(MoneyRows, FullWidth))

NextMoney ==
    \/ ParseCsvContent
    \/ NewAnalyzer
    \/ Packages(1)
    \/ AnalyzeCostBreakdown(1)

SpecMoney == InitMoney /\ [][NextMoney]_vars

\* ------------------------------------------------------------------------
\* Claims C1-C4 (SpecMoney)
\* ------------------------------------------------------------------------

\* The tracking numbers that have a row in a shipment table.
TrackingIn(table) == {table[i].tracking_number : i \in DOMAIN table}

\* Every charge line's tracking number has a row in the shipment table.
Covered(e) ==
    \A i \in DOMAIN e.data :
        e.data[i].tracking_number \in TrackingIn(PackagesOf(e))

\* Every charge line carries a charge category.
Categorised(df) == \A i \in DOMAIN df : ~IsNull(df[i].charge_category)

\* Two values that are equal or both null.
Same(a, b) == (IsNull(a) /\ IsNull(b)) \/ a = b

\* C1 as stated: for every dataset the shipment table's total_charge sums
\* to the charge-line table's total_charge.
C1_AllDatasets ==
    \A i \in DOMAIN engines :
        engines[i]._packages.filled =>
            TotalOfRows(engines[i]._packages.table) = TotalOfRows(engines[i].data)

\* C1 amended: the shipment table's total_charge sums to the total_charge
\* of the charge lines whose tracking number has a row in the shipment
\* table; so it equals the charge-line table's sum whenever every charge
\* line's tracking number has such a row.
C1_CoveredDatasets ==
    \A i \in DOMAIN engines :
        LET e == engines[i]
            kept == SelectSeq(e.data, LAMBDA r :
                        r.tracking_number \in TrackingIn(e._packages.table))
        IN  e._packages.filled =>
              /\ TotalOfRows(e._packages.table) = TotalOfRows(kept)
              /\ Covered(e) => TotalOfRows(e._packages.table) = TotalOfRows(e.data)

\* C1 witness: a computed shipment table of a covered dataset in which a
\* shipment folds several charge lines of different categories.
C1_Witness ==
    \E i \in DOMAIN engines :
        /\ engines[i]._packages.filled
        /\ Covered(engines[i])
        /\ Len(engines[i]._packages.table) = 2
        /\ \E a, b \in DOMAIN engines[i].data :
              /\ engines[i].data[a].tracking_number = engines[i].data[b].tracking_number
              /\ engines[i].data[a].charge_category # engines[i].data[b].charge_category

\* C2 as stated: for every dataset the cost breakdown's total_charge sums
\* to the shipment table's total_charge.
C2_AllDatasets ==
    last.op = "analyze_cost_breakdown" =>
        TotalOfRows(last.result) = TotalOfRows(PackagesOf(engines[last.engine]))

\* C2 amended: the cost breakdown sums the charge lines that carry a charge
\* category; it agrees with the shipment table whenever every charge line
\* carries a category and a tracking number that has a row in the shipment
\* table.
C2_CategorisedCovered ==
    last.op = "analyze_cost_breakdown" =>
        LET e == engines[last.engine]
            categorised == SelectSeq(e.data, LAMBDA r : ~IsNull(r.charge_category))
        IN  /\ TotalOfRows(last.result) = TotalOfRows(categorised)
            /\ (Categorised(e.data) /\ Covered(e)) =>
                   TotalOfRows(last.result) = TotalOfRows(PackagesOf(e))

\* C2 witness: a breakdown of two categories over a covered, categorised
\* dataset with two shipments.
C2_Witness ==
    /\ last.op = "analyze_cost_breakdown"
    /\ Len(last.result) = 2
    /\ Categorised(engines[last.engine].data)
    /\ Covered(engines[last.engine])
    /\ Len(PackagesOf(engines[last.engine])) = 2

\* C3: every record the normalizer produces has total_charge = net_amount,
\* the parsed net amount of its line (the discount is not added), so the
\* two columns have the same sum.
C3_TotalIsNet ==
    parsed_data.set =>
        /\ \A i \in DOMAIN parsed_data.table :
              /\ parsed_data.table[i].total_charge = parsed_data.table[i].net_amount
              /\ parsed_data.table[i].net_amount =
                     ToNumericFillna0(upload.rows[i].net_amount)
        /\ TotalOfRows(parsed_data.table) = SumSeq(Column(parsed_data.table, "net_amount"))

\* C3 witness: a parsed table of several records with a non-zero discount.
C3_Witness ==
    /\ parsed_data.set
    /\ Len(parsed_data.table) > 1
    /\ \E i \in DOMAIN parsed_data.table :
          /\ parsed_data.table[i].discount_amount # 0
          /\ parsed_data.table[i].net_amount # 0

\* C4: a shipment's total_charge is the sum of net_amount over all charge
\* lines of its tracking number, whatever their category; and when the
\* tracking number has descriptor rows its service_name is a descriptor
\* row's charge description: that of the first descriptor row that has
\* one (null when none has).
C4_ShipmentTotalAndService ==
    \A i \in DOMAIN engines :
        engines[i]._packages.filled =>
            \A k \in DOMAIN engines[i]._packages.table :
                LET p == engines[i]._packages.table[k]
                    lines == SelectSeq(engines[i].data, LAMBDA r :
                                 r.tracking_number = p.tracking_number)
                    desc == SelectSeq(lines, LAMBDA r :
                                r.package_indicator = "1" /\ r.charge_category = "FRT")
                IN  /\ p.total_charge = SumSeq(Column(lines, "net_amount"))
                    /\ Len(desc) = 1 => Same(p.service_name, desc[1].charge_description)
                    /\ desc # <<>> =>
                         \/ \E j \in DOMAIN desc :
                               /\ ~IsNull(desc[j].charge_description)
                               /\ \A h \in 1..(j - 1) : IsNull(desc[h].charge_description)
                               /\ p.service_name = desc[j].charge_description
                         \/ /\ \A j \in DOMAIN desc : IsNull(desc[j].charge_description)
                            /\ IsNull(p.service_name)

\* C4 witness: the shipment of a freight package line of 10.00 and an
\* accessorial line of 3.50 has total_charge 13.50 and the freight line's
\* description as service_name.
C4_Witness ==
    \E i \in DOMAIN engines :
        /\ engines[i]._packages.filled
        /\ \E k \in DOMAIN engines[i]._packages.table :
              /\ engines[i]._packages.table[k].total_charge = 1350
              /\ engines[i]._packages.table[k].service_name = "TB Standard"
        /\ \E a, b \in DOMAIN engines[i].data :
              /\ engines[i].data[a].charge_category = "FRT"
              /\ engines[i].data[a].net_amount = 1000
              /\ engines[i].data[b].charge_category = "ACC"
              /\ engines[i].data[b].net_amount = 350
              /\ engines[i].data[a].tracking_number = engines[i].data[b].tracking_number

\* ------------------------------------------------------------------------
\* Specification for the return filter: files whose rows vary in tracking
\* number, package-line flag, charge category and shipment type.
\* ------------------------------------------------------------------------

ReturnRows ==
    { [DefaultRow EXCEPT !.tracking_number = k[1], !.package_indicator = k[2],
                         !.charge_category = k[3], !.shipment_type = k[4],
                         !.net_amount = k[5]] :
        k \in { <<"1Z001", "1", "FRT", "RTN", "10.00">>,
                <<"1Z001", "1", "FRT", "SHP", "5">>,
                <<"1Z001", "0", "ACC", "RTN", "3.50">>,
                <<"1Z999", "1", "FRT", "RTN", "2.00">>,
                <<"1Z999", "1", "ACC", "RTN", "3.50">>,
                <<"1Z999", "0", "ACC", "SHP", "1">> } }

ReturnsOnlyArgs == [DefaultArgs EXCEPT !.returns_only = TRUE]

InitReturns == InitWith(FilesOf(ReturnRows, FullWidth))

NextReturns ==
    \/ ParseCsvContent
    \/ NewAnalyzer
    \/ \E i \in {1, 2} : Packages(i)
    \/ \E i \in {1, 2} : AnalyzeReturns(i)
    \/ \E args \in {DefaultArgs, ReturnsOnlyArgs} : FilterData(1, args)

SpecReturns == InitReturns /\ [][NextReturns]_vars

\* The return count analyze_returns reports (none, read as 0, when its
\* summary is the empty "no data" one).
TotalReturns(res) == IF res.summary.empty THEN 0 ELSE res.summary.total_returns

\* Engine 2 was made by filter_data(returns_only=True) on engine 1 and has
\* computed its shipment table.
ReturnsView ==
    /\ Len(engines) = 2
    /\ engines[2].parent = 1
    /\ engines[2].args = ReturnsOnlyArgs
    /\ engines[2]._packages.filled

\* C6 as stated: the returns-only engine's shipment table has is_return on
\* every row and as many rows as analyze_returns() counts returns on the
\* unfiltered engine.
C6_SameCount ==
    (ReturnsView /\ last.op = "analyze_returns" /\ last.engine = 1) =>
        /\ \A k \in DOMAIN engines[2]._packages.table :
              engines[2]._packages.table[k].is_return = TRUE
        /\ Len(engines[2]._packages.table) = TotalReturns(last.result)

\* Every return-flagged charge line belongs to a tracking number that has a
\* row in the unfiltered shipment table and whose lines all carry the flag.
ReturnsUniform(e) ==
    \A i \in DOMAIN e.data :
        e.data[i].is_return =>
            /\ e.data[i].tracking_number \in TrackingIn(PackagesOf(e))
            /\ \A j \in DOMAIN e.data :
                  e.data[j].tracking_number = e.data[i].tracking_number
                      => e.data[j].is_return

\* C6 amended: the returns-only engine's shipment table has is_return on
\* every row and holds every return shipment of the unfiltered table, so it
\* has at least as many rows as analyze_returns() counts on the unfiltered
\* engine; the two counts are equal when every return-flagged charge line
\* belongs to a tracking number that is in the unfiltered shipment table
\* and whose charge lines all carry the return flag.
C6_AtLeastCount ==
    (ReturnsView /\ last.op = "analyze_returns" /\ last.engine = 1) =>
        /\ \A k \in DOMAIN engines[2]._packages.table :
              engines[2]._packages.table[k].is_return = TRUE
        /\ \A k \in DOMAIN PackagesOf(engines[1]) :
              PackagesOf(engines[1])[k].is_return =>
                  PackagesOf(engines[1])[k].tracking_number
                      \in TrackingIn(engines[2]._packages.table)
        /\ Len(engines[2]._packages.table) >= TotalReturns(last.result)
        /\ ReturnsUniform(engines[1]) =>
              Len(engines[2]._packages.table) = TotalReturns(last.result)

\* C6 witness: a dataset with a return and a non-return shipment, filtered
\* to one row, the one return analyze_returns() counts.
C6_Witness ==
    /\ ReturnsView
    /\ last.op = "analyze_returns" /\ last.engine = 1
    /\ Len(PackagesOf(engines[1])) = 2
    /\ ReturnsUniform(engines[1])
    /\ TotalReturns(last.result) = 1
    /\ Len(engines[2]._packages.table) = 1

\* ------------------------------------------------------------------------
\* Specification for the weight rollup: descriptor rows that vary in
\* tracking number and in billed and actual weight.
\* ------------------------------------------------------------------------

WeightRows ==
    { [DefaultRow EXCEPT !.tracking_number = t, !.billed_weight = w[1],
                         !.actual_weight = w[2]] :
        t \in {"1Z001", "1Z999"},
        w \in { <<"0", "0">>, <<"0", "1.2">>, <<"0.5", "0.3">>, <<"1.2", "1">>,
                <<"50", "50">>, <<"60", "0">> } }

InitWeights == InitWith(FilesOf(WeightRows, FullWidth))

NextWeights ==
    \/ ParseCsvContent
    \/ NewAnalyzer
    \/ AnalyzeWeights(1)

SpecWeights == InitWeights /\ [][NextWeights]_vars

\* C7: in analyze_weights() every shipment of the weight subset with
\* billed_weight >= 0 is in exactly one bucket, and the package_count
\* values of the distribution sum to the size of the weight subset.
C7_TotalPartition ==
    (last.op = "analyze_weights" /\ ~last.result.summary.empty) =>
        LET subset == WeightData(PackagesOf(engines[last.engine]))
        IN  /\ \A i \in DOMAIN subset :
                  subset[i].billed_weight >= 0 =>
                      Cardinality(BucketsOf(subset[i].billed_weight)) = 1
            /\ SumSeq(Column(last.result.distribution, "package_count")) = Len(subset)

\* ------------------------------------------------------------------------
\* Specification for top expenses: rows that vary in tracking number,
\* kind of line and amount.
\* ------------------------------------------------------------------------

TopRows ==
    { [DefaultRow EXCEPT !.tracking_number = t, !.package_indicator = k[1],
                         !.charge_category = k[2], !.net_amount = k[3]] :
        t \in {"1Z001", "1Z500", "1Z999"},
        k \in { <<"1", "FRT", "10.00">>, <<"1", "FRT", "3.50">>,
                <<"0", "ACC", "3.50">> } }

InitTop == InitWith(FilesOf(TopRows, FullWidth))

NextTop ==
    \/ ParseCsvContent
    \/ NewAnalyzer
    \/ \E n \in 0..MaxN : GetTopExpenses(1, n)

SpecTop == InitTop /\ [][NextTop]_vars

Min(a, b) == IF a < b THEN a ELSE b

\* C9: get_top_expenses(n) returns exactly min(n, shipment_count) rows, in
\* non-increasing order of total_charge, no tracking number twice, each a
\* row of the shipment table, and every returned row's total_charge is >=
\* that of every shipment not returned.
C9_TopExpenses ==
    last.op = "get_top_expenses" =>
        LET top == last.result
            packages == PackagesOf(engines[last.engine])
        IN  /\ Len(top) = Min(last.n, Len(packages))
            /\ \A i, j \in DOMAIN top : i < j => top[i].total_charge >= top[j].total_charge
            /\ \A i, j \in DOMAIN top :
                  i # j => top[i].tracking_number # top[j].tracking_number
            /\ \A i \in DOMAIN top : \E k \in DOMAIN packages :
                  /\ packages[k].tracking_number = top[i].tracking_number
                  /\ packages[k].total_charge = top[i].total_charge
            /\ \A k \in DOMAIN packages :
                  packages[k].tracking_number \notin TrackingIn(top) =>
                      \A i \in DOMAIN top : top[i].total_charge >= packages[k].total_charge

\* C9 witness: the top 2 of 3 shipments, where the first shipment of the
\* table is the cheapest and is left out.
C9_Witness ==
    /\ last.op = "get_top_expenses"
    /\ last.n = 2
    /\ Len(last.result) = 2
    /\ Len(PackagesOf(engines[last.engine])) = 3
    /\ PackagesOf(engines[last.engine])[1].total_charge < last.result[2].total_charge

\* ------------------------------------------------------------------------
\* Specification for the percentages: charge lines that vary in category
\* and amount, credits included.
\* ------------------------------------------------------------------------

PercentRows ==
    { [DefaultRow EXCEPT !.charge_category = c, !.net_amount = a] :
        c \in {"FRT", "ACC", "TAX"}, a \in {"10.00", "3.50", "-2.00"} }

InitPercent == InitWith(FilesOf(PercentRows, FullWidth))

NextPercent ==
    \/ ParseCsvContent
    \/ NewAnalyzer
    \/ AnalyzeCostBreakdown(1)

SpecPercent == InitPercent /\ [][NextPercent]_vars

Abs(x) == IF x < 0 THEN -x ELSE x

\* C10: when the breakdown's grand total_charge is > 0, every percentage is
\* a number and the percentages sum to 100.00 within 0.005 per row (the
\* column is in hundredths of a percent, so within half a unit per row).
C10_PercentagesSum ==
    (last.op = "analyze_cost_breakdown" /\ TotalOfRows(last.result) > 0) =>
        /\ \A i \in DOMAIN last.result : last.result[i].percentage.finite
        /\ 2 * Abs(SumSeq([i \in DOMAIN last.result |->
                              last.result[i].percentage.value]) - 10000)
              <= Len(last.result)

\* C10 witness: a breakdown of three categories, one a credit, with a
\* positive grand total and percentages that are not whole hundredths.
C10_Witness ==
    /\ last.op = "analyze_cost_breakdown"
    /\ Len(last.result) = 3
    /\ TotalOfRows(last.result) > 0
    /\ \E i \in DOMAIN last.result : last.result[i].total_charge < 0
    /\ \E i \in DOMAIN last.result :
          last.result[i].total_charge * 10000 % TotalOfRows(last.result) # 0

\* ------------------------------------------------------------------------
\* Specification for narrow files: files of 80 columns and of full width,
\* whose rows vary in tracking number and in the recipient-country cell.
\* ------------------------------------------------------------------------

ParseRows ==
    { [DefaultRow EXCEPT !.tracking_number = t, !.recipient_country = c] :
        t \in {"1Z001", "1Z999"}, c \in {"FR", "DE ", " ", NaN} }

InitParse ==
    InitWith(FilesOf(ParseRows, 80) \cup FilesOf(ParseRows, FullWidth))

NextParse ==
    \/ ParseCsvContent
    \/ NewAnalyzer
    \/ Packages(1)
    \/ AnalyzeByDestination(1)

SpecParse == InitParse /\ [][NextParse]_vars

\* C8: when the file is too narrow to hold recipient_country (position
\* 81), every record the normalizer produces has the absent value for
\* recipient_country, and analyze_by_destination(), which leaves out the
\* shipments without a recipient country, reports no country at all.
C8_MissingColumnAbsent ==
    upload.width <= COLUMN_MAPPING.recipient_country =>
        /\ parsed_data.set =>
              \A i \in DOMAIN parsed_data.table :
                  IsNull(parsed_data.table[i].recipient_country)
        /\ last.op = "analyze_by_destination" => last.result = <<>>

\* ------------------------------------------------------------------------
\* Specification for the default filter: a shipment with a freight and a
\* residential line, and a returned import shipment with a freight and a
\* brokerage line; every rollup is called on the filtered engine.
\* ------------------------------------------------------------------------

FilterRows ==
    { DefaultRow,
      [DefaultRow EXCEPT !.package_indicator = "0", !.charge_category = "ACC",
                         !.charge_code = "RES",
                         !.charge_description = "Residential",
                         !.net_amount = "3.50"],
      [DefaultRow EXCEPT !.tracking_number = "1Z999", !.shipment_type = "RTN",
                         !.shipment_subtype = "RTS", !.sender_country = "AT",
                         !.recipient_country = "DE",
                         !.shipment_date = "2025-01-06",
                         !.billed_weight = "0.5", !.net_amount = "5"],
      [DefaultRow EXCEPT !.tracking_number = "1Z999", !.shipment_type = "RTN",
                         !.shipment_subtype = "IMP", !.sender_country = "AT",
                         !.recipient_country = "DE",
                         !.shipment_date = "2025-01-06",
                         !.package_indicator = "0", !.charge_category = "BRK",
                         !.charge_description = "Brokerage Fee",
                         !.net_amount = "2.00"] }

InitFilter == InitWith(FilesOf(FilterRows, FullWidth))

NextFilter ==
    \/ ParseCsvContent
    \/ NewAnalyzer
    \/ \E args \in {DefaultArgs, ReturnsOnlyArgs} : FilterData(1, args)
    \/ \E i \in {1, 2} : Packages(i)
    \/ GetSummary(2)
    \/ AnalyzeCostBreakdown(2)
    \/ AnalyzeByDestination(2)
    \/ \E period \in {"week", "month"} : AnalyzeTrends(2, period)
    \/ AnalyzeReturns(2)
    \/ AnalyzeWeights(2)
    \/ AnalyzeServices(2)
    \/ AnalyzeDutiesAndBrokerage(2)
    \/ AnalyzeAccessorials(2)
    \/ \E n \in {1, MaxN} : GetTopExpenses(2, n)

SpecFilter == InitFilter /\ [][NextFilter]_vars

\* What a rollup call returns on engine e.
ResultOn(e, call) ==
    CASE call.op = "packages" -> PackagesOf(e)
      [] call.op = "get_summary" -> get_summary(e.data, PackagesOf(e))
      [] call.op = "analyze_cost_breakdown" -> analyze_cost_breakdown(e.data)
      [] call.op = "analyze_by_destination" ->
             analyze_by_destination(PackagesOf(e))
      [] call.op = "analyze_trends" -> analyze_trends(PackagesOf(e), call.period)
      [] call.op = "analyze_returns" -> analyze_returns(PackagesOf(e))
      [] call.op = "analyze_weights" -> analyze_weights(PackagesOf(e))
      [] call.op = "analyze_services" -> analyze_services(PackagesOf(e))
      [] call.op = "analyze_duties_and_brokerage" ->
             analyze_duties_and_brokerage(e.data)
      [] call.op = "analyze_accessorials" -> analyze_accessorials(e.data)
      [] call.op = "get_top_expenses" -> get_top_expenses(PackagesOf(e), call.n)

RollupOps ==
    { "packages", "get_summary", "analyze_cost_breakdown",
      "analyze_by_destination", "analyze_trends", "analyze_returns",
      "analyze_weights", "analyze_services", "analyze_duties_and_brokerage",
      "analyze_accessorials", "get_top_expenses" }

\* Engine 2 was made by filter_data() with every argument at its default,
\* called on engine 1.
DefaultView ==
    /\ Len(engines) = 2
    /\ engines[2].parent = 1
    /\ engines[2].args = DefaultArgs

\* C5: filter_data() with no predicate returns an engine that wraps the
\* same charge lines, has the same shipment table, and on which every
\* rollup call returns what the same call returns on the original engine.
C5_DefaultFilterIdentity ==
    DefaultView =>
        /\ engines[2].data = engines[1].data
        /\ PackagesOf(engines[2]) = PackagesOf(engines[1])
        /\ (last.op \in RollupOps /\ last.engine = 2) =>
               last.result = ResultOn(engines[1], last)

\* C5 witness: a rollup that is not empty, returned by the default-filtered
\* engine of a dataset that has a return shipment and another shipment.
C5_Witness ==
    /\ DefaultView
    /\ last.op = "analyze_returns" /\ last.engine = 2
    /\ ~last.result.summary.empty
    /\ Len(PackagesOf(engines[1])) = 2
    /\ engines[2]._packages.filled

\* ------------------------------------------------------------------------
\* Specification for the per-record service name: rows that vary in charge
\* category, charge description and service code.
\* ------------------------------------------------------------------------

ServiceRows ==
    { [DefaultRow EXCEPT !.charge_category = c, !.charge_description = d,
                         !.service_code = s] :
        c \in {"FRT", "ACC"}, d \in {"WW Standard", " ", NaN},
        s \in {"007", "999"} }
    \cup { [DefaultRow EXCEPT !.charge_description = NaN,
                              !.service_code = NaN] }

InitService == InitWith(FilesOf(ServiceRows, FullWidth))

NextService ==
    \/ ParseCsvContent
    \/ NewAnalyzer

SpecService == InitService /\ [][NextService]_vars

\* C11: on every record, service_name is the record's charge description
\* when the category is FRT and the description is not empty (absent, or
\* blank before cleaning); otherwise it is the SERVICE_CODES entry of the
\* record's service code, and "Other" when the code has no entry.
C11_ServiceNameDerivation ==
    parsed_data.set =>
        \A i \in DOMAIN parsed_data.table :
            LET r == parsed_data.table[i]
            IN  IF r.charge_category = "FRT" /\ ~IsNull(r.charge_description)
                THEN /\ r.service_name = r.charge_description
                     /\ r.service_name = upload.rows[i].charge_description
                ELSE IF r.service_code \in DOMAIN SERVICE_CODES
                     THEN r.service_name = SERVICE_CODES[r.service_code]
                     ELSE r.service_name = "Other"

\* C11 witness: a parsed table with a freight record named by its
\* description, a freight record without description named by the code
\* table, and a record whose unknown code gives "Other".
C11_Witness ==
    /\ parsed_data.set
    /\ \E i \in DOMAIN parsed_data.table :
          /\ parsed_data.table[i].charge_category = "FRT"
          /\ parsed_data.table[i].service_code = "007"
          /\ parsed_data.table[i].service_name = "WW Standard"
    /\ \E i \in DOMAIN parsed_data.table :
          /\ parsed_data.table[i].charge_category = "FRT"
          /\ IsNull(parsed_data.table[i].charge_description)
          /\ parsed_data.table[i].service_name = "WW Express Saver"
    /\ \E i \in DOMAIN parsed_data.table :
          /\ IsNull(parsed_data.table[i].charge_description)
          /\ parsed_data.table[i].service_code = "999"
          /\ parsed_data.table[i].service_name = "Other"

\* ------------------------------------------------------------------------
\* Specification for purity and caching: every public operation, in any
\* order, on the original engine and on the filtered engine, filter_data
\* called on either.
\* ------------------------------------------------------------------------

PureRows ==
    { DefaultRow,
      [DefaultRow EXCEPT !.tracking_number = "1Z999", !.shipment_type = "RTN",
                         !.shipment_subtype = "IMP", !.net_amount = "5"] }

InitPure == InitWith(FilesOf(PureRows, FullWidth))

NextPure ==
    \/ ParseCsvContent
    \/ NewAnalyzer
    \/ \E i \in {1, 2}, args \in {DefaultArgs, ReturnsOnlyArgs} :
          FilterData(i, args)
    \/ \E i \in {1, 2} : Packages(i)
    \/ \E i \in {1, 2} : GetSummary(i)
    \/ \E i \in {1, 2} : AnalyzeCostBreakdown(i)
    \/ \E i \in {1, 2} : AnalyzeByDestination(i)
    \/ \E i \in {1, 2} : AnalyzeTrends(i, "week")
    \/ \E i \in {1, 2} : AnalyzeReturns(i)
    \/ \E i \in {1, 2} : AnalyzeWeights(i)
    \/ \E i \in {1, 2} : AnalyzeServices(i)
    \/ \E i \in {1, 2} : AnalyzeDutiesAndBrokerage(i)
    \/ \E i \in {1, 2} : AnalyzeAccessorials(i)
    \/ \E i \in {1, 2} : GetTopExpenses(i, MaxN)

SpecPure == InitPure /\ [][NextPure]_vars

\* Engine i is the same instance before and after the step: engine 1
\* always, engine 2 unless the step is the filter_data call that made it.
SameInstance(i) ==
    /\ i \in DOMAIN engines
    /\ i = 1 \/ last'.op # "filter_data"

\* C12: no operation changes the charge lines an engine instance wraps, nor
\* the contents of its shipment table (the table the packages property
\* gives, cached or not); a filled cache stays as it is.  So after
\* filter_data, and after any rollup on the filtered engine, the original
\* engine has the dataset, the shipment table and hence the rollups it had.
C12_NoOperationMutates ==
    [][ \A i \in {1, 2} :
          SameInstance(i) =>
              /\ engines'[i].data = engines[i].data
              /\ PackagesOf(engines'[i]) = PackagesOf(engines[i])
              /\ engines[i]._packages.filled =>
                     engines'[i]._packages = engines[i]._packages ]_vars

\* C12 witness: a rollup has run on a filtered engine that wraps fewer
\* charge lines than the original, both shipment tables being cached.
C12_Witness ==
    /\ Len(engines) = 2
    /\ last.op = "analyze_trends" /\ last.engine = 2
    /\ engines[2].parent = 1
    /\ engines[2].data # <<>>
    /\ Len(engines[2].data) < Len(engines[1].data)
    /\ engines[1]._packages.filled
    /\ engines[2]._packages.filled

\* C13: an engine instance runs _aggregate_packages at most once: its cache
\* is filled exactly when it has run once, and then holds the table of the
\* instance's own dataset; an access that finds the cache filled returns
\* the cached table; a new filtered engine has an empty cache and no run.
C13_ComputedAtMostOnce ==
    /\ \A i \in DOMAIN engines :
          /\ engines[i].runs <= 1
          /\ engines[i]._packages.filled <=> engines[i].runs = 1
          /\ engines[i]._packages.filled =>
                 engines[i]._packages.table = _aggregate_packages(engines[i].data)
    /\ (last.op = "packages" /\ last.cached) =>
          /\ engines[last.engine].runs = 1
          /\ last.result = engines[last.engine]._packages.table
    /\ last.op = "filter_data" =>
          engines[2]._packages = NoCache /\ engines[2].runs = 0

\* C13 witness: the packages property read again on a filtered engine whose
\* dataset is empty, the cached empty table returned after one run, while
\* the parent's cache holds a table that is not empty.
C13_Witness ==
    /\ Len(engines) = 2
    /\ last.op = "packages" /\ last.engine = 2 /\ last.cached
    /\ engines[2].data = <<>>
    /\ engines[2].runs = 1
    /\ engines[1]._packages.filled
    /\ engines[1]._packages.table # <<>>

\* ------------------------------------------------------------------------
\* Batches of files: UPSInvoiceParser.parse_file and parse_multiple_files
\* ------------------------------------------------------------------------

\* The most (file object, filename) pairs in a batch.
MaxFiles == 3

\* In the batch specification upload is [objects, batch]: objects are the
\* file objects (BinaryIO), each [content, read] with content the rows of
\* the file (<<>> for a file without any row) and read telling that the
\* object has been read to its end; batch is the list handed to
\* parse_multiple_files, each entry [obj, name] naming a file object and
\* a filename.

\* file.read(): the content from the object's position to its end.
ReadOf(obj) == IF obj.read THEN <<>> ELSE obj.content

\* read_csv raises EmptyDataError on content without any row; the
\* conversions after it raise on no content (they coerce).
Raises(content) == content = <<>>

\* parse_file(file, filename) on content that read_csv accepts
parse_file(content, filename) ==
    parse_csv_content([width |-> FullWidth, name |-> filename, rows |-> content])

RECURSIVE Concat(_)
\* pd.concat(all_data, ignore_index=True)
Concat(tables) ==
    IF tables = <<>> THEN <<>> ELSE Head(tables) \o Concat(Tail(tables))

RECURSIVE ParseLoop(_, _, _, _)
\* The loop of parse_multiple_files over the batch: each file is read and
\* parsed; one that raises is reported and skipped.  It gives the file
\* objects after the loop, all_data, and for each entry whether an error
\* was reported.
ParseLoop(objects, batch, all_data, errors) ==
    IF batch = <<>>
    THEN [objects |-> objects, all_data |-> all_data, errors |-> errors]
    ELSE LET e == Head(batch)
             content == ReadOf(objects[e.obj])
             after == [objects EXCEPT ![e.obj].read = TRUE]
         IN  IF Raises(content)
             THEN ParseLoop(after, Tail(batch), all_data, Append(errors, TRUE))
             ELSE ParseLoop(after, Tail(batch),
                            Append(all_data, parse_file(content, e.name)),
                            Append(errors, FALSE))

\* UPSInvoiceParser.parse_multiple_files(files).  Every file that parses
\* sets parsed_data on the way (parse_csv_content), and the combined table
\* replaces it at the end; when no file parsed the empty table is returned
\* and parsed_data is left as it was.
ParseMultipleFiles ==
    LET r == ParseLoop(upload.objects, upload.batch, <<>>, <<>>)
        combined == Concat(r.all_data)
    IN  /\ upload' = [upload EXCEPT !.objects = r.objects]
        /\ parsed_data' = IF r.all_data = <<>> THEN parsed_data
                          ELSE [set |-> TRUE, table |-> combined]
        /\ last' = [op |-> "parse_multiple_files", result |-> combined,
                    errors |-> r.errors, objects |-> upload.objects]
        /\ UNCHANGED engines

\* UPSInvoiceParser.parse_file(file, filename) on entry k of the batch; it
\* raises on content without rows, before parsed_data is set.
ParseFile(k) ==
    /\ k \in DOMAIN upload.batch
    /\ LET e == upload.batch[k]
           content == ReadOf(upload.objects[e.obj])
       IN  /\ upload' = [upload EXCEPT !.objects[e.obj].read = TRUE]
           /\ parsed_data' = IF Raises(content) THEN parsed_data
                             ELSE [set |-> TRUE, table |-> parse_file(content, e.name)]
           /\ last' = [op |-> "parse_file", entry |-> k, raised |-> Raises(content)]
    /\ UNCHANGED engines

BatchRows == { DefaultRow, [DefaultRow EXCEPT !.tracking_number = "1Z999"] }

\* The contents of a file: no row, one row, or the two rows.
BatchContents ==
    {<<>>} \cup { <<r>> : r \in BatchRows }
           \cup { <<DefaultRow, [DefaultRow EXCEPT !.tracking_number = "1Z999"]>> }

\* Two file objects, not yet read, and a batch of 1..MaxFiles entries.
Batches ==
    { [objects |-> os, batch |-> b] :
        os \in [1..2 -> [content : BatchContents, read : {FALSE}]],
        b \in UNION { [1..n -> [obj : 1..2, name : {"a.csv", "b.csv"}]] : n \in 1..MaxFiles } }

InitBatch == InitWith(Batches)

NextBatch ==
    \/ ParseMultipleFiles
    \/ \E k \in 1..MaxFiles : ParseFile(k)

SpecBatch == InitBatch /\ [][NextBatch]_vars

\* What the batch gives when every entry contributes the records of its
\* file, and a file without rows nothing.
RECURSIVE RecordsOfBatch(_, _)
RecordsOfBatch(objects, batch) ==
    IF batch = <<>> THEN <<>>
    ELSE LET e == Head(batch)
             content == objects[e.obj].content
         IN  (IF content = <<>> THEN <<>> ELSE parse_file(content, e.name))
                 \o RecordsOfBatch(objects, Tail(batch))

\* The batch was handed over with files that had not been read.
FreshBatch ==
    /\ last.op = "parse_multiple_files"
    /\ \A k \in DOMAIN upload.batch : ~last.objects[upload.batch[k].obj].read

\* C14: parse_multiple_files over a batch of files returns the
\* concatenation in batch order of the records of the files that have rows
\* to parse: a file that fails contributes nothing and changes nothing for
\* the others, and a file supplied twice contributes its rows twice.
C14_BatchConcatenation ==
    FreshBatch => last.result = RecordsOfBatch(last.objects, upload.batch)

\* C15: analyze_duties_and_brokerage() on a dataset without any charge line
\* of shipment subtype "IMP", the empty dataset included, returns the empty
\* summary dict and empty by_charge_type, by_country and detail tables.
C15_NoImportLines ==
    ( /\ last.op = "analyze_duties_and_brokerage"
      /\ \A k \in DOMAIN engines[last.engine].data :
            engines[last.engine].data[k].shipment_subtype # "IMP" )
    => /\ last.result.summary = [empty |-> TRUE]
       /\ last.result.by_charge_type = <<>>
       /\ last.result.by_country = <<>>
       /\ last.result.detail = <<>>

\* C15 witness: the rollup called on a dataset that has charge lines, a
\* return among them, and no import line.
C15_Witness ==
    /\ last.op = "analyze_duties_and_brokerage"
    /\ engines[last.engine].data # <<>>
    /\ \E k \in DOMAIN engines[last.engine].data :
          engines[last.engine].data[k].shipment_subtype = "RTS"
    /\ \A k \in DOMAIN engines[last.engine].data :
          engines[last.engine].data[k].shipment_subtype # "IMP"
    /\ last.result = NoDuties

\* ------------------------------------------------------------------------
\* Specification for zero denominators: amounts that cancel, a shipment
\* without actual weight, a dataset without shipments.
\* ------------------------------------------------------------------------

ZeroRows ==
    { [DefaultRow EXCEPT !.charge_category = c, !.net_amount = a] :
        c \in {"FRT", "ACC"}, a \in {"0", "2.00", "-2.00"} }
    \cup { [DefaultRow EXCEPT !.actual_weight = "0"],
           [DefaultRow EXCEPT !.package_indicator = "0",
                              !.charge_category = "ACC"] }

InitZero == InitWith(FilesOf(ZeroRows, FullWidth))

NextZero ==
    \/ ParseCsvContent
    \/ NewAnalyzer
    \/ GetSummary(1)
    \/ AnalyzeCostBreakdown(1)
    \/ AnalyzeWeights(1)

SpecZero == InitZero /\ [][NextZero]_vars

\* C16: a derived ratio whose denominator is zero has the value 0: the
\* summary's return rate and average cost when there is no shipment, the
\* weight premium when the total actual weight is zero, and every
\* percentage of the cost breakdown when the grand total_charge of a
\* dataset that has charge lines is 0.
C16_ZeroDenominators ==
    /\ (last.op = "get_summary" /\ last.result.total_packages = 0) =>
          /\ last.result.return_rate = Ratio(0, 1)
          /\ last.result.avg_cost_per_package = Ratio(0, 1)
    /\ ( /\ last.op = "analyze_weights"
         /\ ~last.result.summary.empty
         /\ last.result.summary.total_actual_weight = 0 ) =>
          last.result.summary.weight_premium = Ratio(0, 1)
    /\ ( /\ last.op = "analyze_cost_breakdown"
         /\ last.result # <<>>
         /\ TotalOfRows(last.result) = 0 ) =>
          \A i \in DOMAIN last.result :
              last.result[i].percentage = [finite |-> TRUE, value |-> 0]

\* C17: get_summary() on an empty dataset returns the all-zero summary, with
\* no date range, no top destination and currency "EUR"; on a dataset that
\* has charge lines and an empty shipment table it returns total_packages
\* 0, total_cost 0, avg_cost_per_package 0 and return_rate 0.
C17_SummaryWithoutShipments ==
    last.op = "get_summary" =>
        /\ engines[last.engine].data = <<>> =>
              last.result =
                  [ total_invoices |-> 0, total_packages |-> 0,
                    total_cost |-> 0, total_freight |-> 0,
                    total_fuel_surcharge |-> 0, total_tax |-> 0,
                    total_accessorial |-> 0,
                    avg_cost_per_package |-> Ratio(0, 1),
                    total_weight_kg |-> 0, date_range |-> NoDateRange,
                    top_destination_country |-> None,
                    return_rate |-> Ratio(0, 1), currency |-> "EUR" ]
        /\ ( /\ engines[last.engine].data # <<>>
             /\ _aggregate_packages(engines[last.engine].data) = <<>> ) =>
              /\ last.result.total_packages = 0
              /\ last.result.total_cost = 0
              /\ last.result.avg_cost_per_package = Ratio(0, 1)
              /\ last.result.return_rate = Ratio(0, 1)

\* C17 witness: get_summary() called on a dataset that has charge lines,
\* none of them a package line, so that its shipment table is empty while
\* the accessorial total is not zero.
C17_Witness ==
    /\ last.op = "get_summary"
    /\ engines[last.engine].data # <<>>
    /\ \A k \in DOMAIN engines[last.engine].data :
          ~engines[last.engine].data[k].is_package_line
    /\ engines[last.engine]._packages = [filled |-> TRUE, table |-> <<>>]
    /\ last.result.total_packages = 0
    /\ last.result.total_accessorial > 0

\* ------------------------------------------------------------------------
\* The normalizer's accessors: UPSInvoiceParser.get_packages and
\* get_charge_breakdown, on the normalizer's parsed_data
\* ------------------------------------------------------------------------

\* get_packages(): the empty table before anything is parsed; after that
\* the statements of _aggregate_packages, which parser.py repeats line by
\* line (shipment_info from the descriptor rows or else the package-line
\* rows, left-joined with charge_totals).
get_packages(pd) ==
    IF ~pd.set THEN <<>>
    ELSE LET df == pd.table
             shipment_info == ShipmentInfo(df)
         IN  [ i \in DOMAIN shipment_info |->
                 shipment_info[i]
                     @@ ChargeTotals(df, shipment_info[i].tracking_number) ]

\* Mutant of get_charge_breakdown: the groups left in key order, unsorted.
get_charge_breakdown_Unsorted(pd) ==
    IF ~pd.set THEN <<>>
    ELSE LET keys == GroupKeys(pd.table, "charge_category")
         IN  [ i \in DOMAIN keys |->
                 LET g == GroupOf(pd.table, "charge_category", keys[i])
                 IN  [ charge_category |-> keys[i],
                       charge_category_name |-> g[1].charge_category_name,
                       discount_amount |-> SumSeq(Column(g, "discount_amount")),
                       net_amount |-> SumSeq(Column(g, "net_amount")),
                       total_charge |-> SumSeq(Column(g, "total_charge")),
                       package_count |-> NUnique(Column(g, "tracking_number")) ] ]

\* get_charge_breakdown(): one row per charge category that is not null,
\* with the sums and the number of distinct tracking numbers
\* (package_count), sorted by total_charge descending.
get_charge_breakdown(pd) ==
    IF ~pd.set THEN <<>>
    ELSE LET df == pd.table
             keys == GroupKeys(df, "charge_category")
             breakdown ==
                 [ i \in DOMAIN keys |->
                     LET g == GroupOf(df, "charge_category", keys[i])
                     IN  [ charge_category |-> keys[i],
                           charge_category_name |-> g[1].charge_category_name,
                           discount_amount |-> SumSeq(Column(g, "discount_amount")),
                           net_amount |-> SumSeq(Column(g, "net_amount")),
                           total_charge |-> SumSeq(Column(g, "total_charge")),
                           package_count |->
                               NUnique(Column(g, "tracking_number")) ] ]
         IN  SortDesc(breakdown, "total_charge")

\* parser.get_packages()
GetPackages ==
    /\ last' = [op |-> "get_packages", result |-> get_packages(parsed_data)]
    /\ UNCHANGED <<upload, parsed_data, engines>>

\* parser.get_charge_breakdown()
GetChargeBreakdown ==
    /\ last' = [op |-> "get_charge_breakdown",
                result |-> get_charge_breakdown(parsed_data)]
    /\ UNCHANGED <<upload, parsed_data, engines>>

NormalizerRows ==
    { DefaultRow,
      [DefaultRow EXCEPT !.package_indicator = "0", !.charge_category = "FSC",
                         !.charge_description = "Fuel Surcharge",
                         !.net_amount = "50"],
      [DefaultRow EXCEPT !.tracking_number = "1Z999",
                         !.charge_category = "ACC",
                         !.charge_description = "Residential",
                         !.net_amount = "3.50"],
      [DefaultRow EXCEPT !.tracking_number = NaN, !.package_indicator = "0",
                         !.charge_category = "ACC",
                         !.charge_description = "Residential",
                         !.net_amount = "3.50"],
      [DefaultRow EXCEPT !.package_indicator = "0", !.charge_category = NaN,
                         !.charge_description = NaN, !.net_amount = "2.00"] }

InitNormalizer == InitWith(FilesOf(NormalizerRows, FullWidth))

NextNormalizer ==
    \/ ParseCsvContent
    \/ NewAnalyzer
    \/ GetPackages
    \/ GetChargeBreakdown
    \/ Packages(1)
    \/ AnalyzeCostBreakdown(1)

SpecNormalizer == InitNormalizer /\ [][NextNormalizer]_vars

\* The engine wraps the dataset the normalizer holds.
SameDataset ==
    /\ engines # <<>>
    /\ parsed_data.set
    /\ engines[1].data = parsed_data.table

\* The columns the two breakdowns have in common.
SharedColumns(r) ==
    [ charge_category |-> r.charge_category,
      charge_category_name |-> r.charge_category_name,
      discount_amount |-> r.discount_amount,
      net_amount |-> r.net_amount,
      total_charge |-> r.total_charge ]

\* C18 as stated: for the same dataset the normalizer's get_packages()
\* returns the engine's shipment table, and get_charge_breakdown() returns
\* what analyze_cost_breakdown() returns: same rows, columns, sums, order.
C18_SameResults ==
    SameDataset =>
        /\ last.op = "get_packages" =>
              last.result = PackagesOf(engines[1])
        /\ last.op = "get_charge_breakdown" =>
              last.result = analyze_cost_breakdown(engines[1].data)

\* C18 amended: the shipment tables are the same; the two breakdowns have
\* the same categories in the same order with the same category name and
\* sums, the normalizer's rows carrying the number of distinct tracking
\* numbers (package_count) and no percentage, the engine's rows the
\* percentage and no package_count.
C18_SameSharedColumns ==
    SameDataset =>
        /\ last.op = "get_packages" =>
              last.result = PackagesOf(engines[1])
        /\ last.op = "get_charge_breakdown" =>
              LET engine == analyze_cost_breakdown(engines[1].data)
              IN  /\ Len(last.result) = Len(engine)
                  /\ \A i \in DOMAIN engine :
                        /\ SharedColumns(last.result[i]) = SharedColumns(engine[i])
                        /\ DOMAIN last.result[i] =
                               DOMAIN SharedColumns(engine[i]) \cup {"package_count"}
                        /\ DOMAIN engine[i] =
                               DOMAIN SharedColumns(engine[i]) \cup {"percentage"}
                        /\ last.result[i].package_count =
                               Cardinality({ parsed_data.table[k].tracking_number :
                                   k \in { j \in DOMAIN parsed_data.table :
                                       parsed_data.table[j].charge_category
                                           = engine[i].charge_category } }
                                   \ {None, NaN})

\* C18 witness: get_charge_breakdown() returned two categories or more,
\* sorted out of key order, on the dataset an engine wraps.
C18_Witness ==
    /\ SameDataset
    /\ last.op = "get_charge_breakdown"
    /\ Len(last.result) >= 2
    /\ last.result[1].total_charge > last.result[2].total_charge
    /\ StrRank(last.result[1].charge_category)
           > StrRank(last.result[2].charge_category)

\* ------------------------------------------------------------------------
\* Claims C19-C20 (SpecMoney): the descriptor path of the shipment table
\* ------------------------------------------------------------------------

\* The descriptor rows of a dataset for tracking number t, in input order.
DescriptorRowsOf(df, t) ==
    SelectSeq(df, LAMBDA r : /\ r.tracking_number = t
                             /\ r.is_package_line
                             /\ r.charge_category = "FRT")

\* The tracking numbers of a dataset.
TrackingNumbers(df) ==
    {df[i].tracking_number : i \in DOMAIN df} \ {None, NaN}

C20_FirstDescriptorRow ==
    \A i \in DOMAIN engines :
        engines[i]._packages.filled =>
            \A k \in DOMAIN engines[i]._packages.table :
                LET p == engines[i]._packages.table[k]
                    desc == DescriptorRowsOf(engines[i].data, p.tracking_number)
                IN  desc # <<>> =>
                        /\ Same(p.service_name, desc[1].charge_description)
                        /\ Same(p.invoice_number, desc[1].invoice_number)
                        /\ p.shipment_date = desc[1].shipment_date
                        /\ Same(p.service_code, desc[1].service_code)
                        /\ p.actual_weight = desc[1].actual_weight
                        /\ p.billed_weight = desc[1].billed_weight
                        /\ Same(p.sender_country, desc[1].sender_country)
                        /\ Same(p.recipient_country, desc[1].recipient_country)
                        /\ Same(p.shipment_type, desc[1].shipment_type)
                        /\ Same(p.shipment_subtype, desc[1].shipment_subtype)
                        /\ p.is_return = desc[1].is_return
                        /\ p.source_file = desc[1].source_file

\* ------------------------------------------------------------------------
\* Claims C21-C22 (SpecMoney): what every shipment row carries
\* ------------------------------------------------------------------------

\* C21: every row of the shipment table, on the descriptor path and on the
\* fallback path, has a service_name that is not absent, an actual and a
\* billed weight, and a return flag.
C21_ResolvedFields ==
    \A i \in DOMAIN engines :
        engines[i]._packages.filled =>
            \A k \in DOMAIN engines[i]._packages.table :
                LET p == engines[i]._packages.table[k]
                IN  /\ ~IsNull(p.service_name)
                    /\ p.actual_weight \in Int
                    /\ p.billed_weight \in Int
                    /\ p.is_return \in BOOLEAN

\* The package-line rows of a dataset for tracking number t, in input order.
PackageRowsOf(df, t) ==
    SelectSeq(df, LAMBDA r : r.tracking_number = t /\ r.is_package_line)

\* The dataset has a descriptor row.
HasDescriptorRow(df) ==
    \E k \in DOMAIN df : df[k].is_package_line /\ df[k].charge_category = "FRT"

CriteriaRows ==
    { DefaultRow,
      [DefaultRow EXCEPT !.package_indicator = "0", !.charge_category = "ACC",
                         !.charge_description = "Residential",
                         !.shipment_date = "2025-01-06",
                         !.net_amount = "3.50"],
      [DefaultRow EXCEPT !.tracking_number = "1Z999", !.shipment_type = "RTN",
                         !.shipment_date = "2025-01-06",
                         !.recipient_country = "DE", !.service_code = "007",
                         !.net_amount = "5"],
      [DefaultRow EXCEPT !.package_indicator = "0", !.charge_category = "FSC",
                         !.charge_description = "Fuel Surcharge",
                         !.shipment_date = NaN, !.recipient_country = NaN,
                         !.service_code = NaN, !.net_amount = "0.75"],
      [DefaultRow EXCEPT !.tracking_number = "1Z999", !.shipment_type = "RTN",
                         !.charge_category = "ACC",
                         !.charge_description = "Residential",
                         !.shipment_date = "2025-01-06",
                         !.recipient_country = "DE", !.service_code = "007",
                         !.net_amount = "3.50"] }

\* The argument sets filter_data is called with: none, each criterion on
\* its own, and a window of one day combined with a country.
CriteriaArgs ==
    { DefaultArgs,
      [DefaultArgs EXCEPT !.start_date = DateText["2025-01-06"]],
      [DefaultArgs EXCEPT !.end_date = DateText["2024-12-31"]],
      [DefaultArgs EXCEPT !.countries = {"FR"}],
      [DefaultArgs EXCEPT !.services = {"007"}],
      [DefaultArgs EXCEPT !.returns_only = TRUE],
      [DefaultArgs EXCEPT !.start_date = DateText["2025-01-06"],
                          !.end_date = DateText["2025-01-06"],
                          !.countries = {"DE"}] }

\* The argument sets of a second filter_data call, on the filtered engine.
NestedArgs ==
    { [DefaultArgs EXCEPT !.end_date = DateText["2024-12-31"]],
      [DefaultArgs EXCEPT !.countries = {"FR"}],
      [DefaultArgs EXCEPT !.returns_only = TRUE] }

InitCriteria == InitWith(FilesOf(CriteriaRows, FullWidth))

NextCriteria ==
    \/ ParseCsvContent
    \/ NewAnalyzer
    \/ \E args \in CriteriaArgs : FilterData(1, args)
    \/ \E args \in NestedArgs : FilterData(2, args)
    \/ Packages(2)

SpecCriteria == InitCriteria /\ [][NextCriteria]_vars

\* A charge line satisfies every criterion that is supplied.
Satisfies(r, args) ==
    /\ args.start_date # NaT =>
          /\ r.shipment_date # NaT
          /\ ~(DateOrd(r.shipment_date) < DateOrd(args.start_date))
    /\ args.end_date # NaT =>
          /\ r.shipment_date # NaT
          /\ ~(DateOrd(r.shipment_date) > DateOrd(args.end_date))
    /\ args.countries # {} =>
          \E c \in args.countries : r.recipient_country = c
    /\ args.services # {} =>
          \E c \in args.services : r.service_code = c
    /\ args.returns_only => r.is_return

\* C23: the engine filter_data returns wraps exactly the charge lines of
\* the engine called that satisfy every supplied criterion, in their order
\* (date bounds inclusive, a line without shipment date failing a date
\* bound); and every row of its shipment table has as total_charge the sum
\* over the retained lines of its tracking number only.
C23_RetainsExactly ==
    Len(engines) = 2 =>
        LET e == engines[2]
            kept == { k \in DOMAIN e.source : Satisfies(e.source[k], e.args) }
        IN  /\ Len(e.data) = Cardinality(kept)
            /\ \A n \in DOMAIN e.data :
                  \E k \in kept :
                      /\ e.data[n] = e.source[k]
                      /\ Cardinality({j \in kept : j < k}) = n - 1
            /\ \A n \in DOMAIN PackagesOf(e) :
                  PackagesOf(e)[n].total_charge =
                      SumSeq(Column(SelectSeq(e.data, LAMBDA r :
                          r.tracking_number = PackagesOf(e)[n].tracking_number),
                          "total_charge"))

\* C23 witness: a date window that keeps the freight line of 1Z001 of 31
\* December and drops its accessorial line of 6 January: the shipment has
\* total_charge 10.00 in the filtered engine and 13.50 in the original.
C23_Witness ==
    /\ Len(engines) = 2
    /\ engines[2].parent = 1
    /\ engines[2].args.end_date = DateText["2024-12-31"]
    /\ engines[2]._packages.filled
    /\ \E n \in DOMAIN engines[2]._packages.table :
          /\ engines[2]._packages.table[n].tracking_number = "1Z001"
          /\ engines[2]._packages.table[n].total_charge = 1000
    /\ \E n \in DOMAIN PackagesOf(engines[1]) :
          /\ PackagesOf(engines[1])[n].tracking_number = "1Z001"
          /\ PackagesOf(engines[1])[n].total_charge = 1350

\* ------------------------------------------------------------------------
\* Claim C24 (SpecWeights): the edges of the weight buckets
\* ------------------------------------------------------------------------

\* The package_count a distribution reports for a label, 0 when it has no
\* row for the label.
CountFor(distribution, label) ==
    SumSeq(Column(SelectSeq(distribution, LAMBDA d : d.weight_range = label),
                  "package_count"))

\* C24: analyze_weights() counts a shipment of billed weight w in the bucket
\* whose range is closed on the left and open on the right: [0,0.5),
\* [0.5,1), [1,2), [2,5), [5,10), [10,20), [20,50), [50,inf).
C24_LeftClosedBuckets ==
    (last.op = "analyze_weights" /\ ~last.result.summary.empty) =>
        LET subset == WeightData(PackagesOf(engines[last.engine]))
        IN  \A b \in DOMAIN WeightLabels :
                CountFor(last.result.distribution, WeightLabels[b]) =
                    Cardinality({ i \in DOMAIN subset :
                        /\ WeightBins[b] <= subset[i].billed_weight
                        /\ b < Len(WeightBins) =>
                               subset[i].billed_weight < WeightBins[b + 1] })

\* ------------------------------------------------------------------------
\* Specification for trends: shipments that differ in shipment date, around
\* the turn of the year.
\* ------------------------------------------------------------------------

TrendRows ==
    { [DefaultRow EXCEPT !.tracking_number = t, !.shipment_date = d] :
        t \in {"1Z001", "1Z999"},
        d \in {"2024-12-30", "2024-12-31", "2025-01-01", "2025-01-06", NaN} }

InitTrends == InitWith(FilesOf(TrendRows, FullWidth))

NextTrends ==
    \/ ParseCsvContent
    \/ NewAnalyzer
    \/ \E period \in {"week", "month"} : AnalyzeTrends(1, period)

SpecTrends == InitTrends /\ [][NextTrends]_vars

\* The ISO 8601 year-week of a date, as year * 100 + week: the week of the
\* date runs from Monday to Sunday and belongs to the year of its Thursday.
IsoWeekOf(d) ==
    LET thursday == DaysBeforeYear(d.y) + YearDay(d) - Weekday(d) + 3
        year == CHOOSE y \in (d.y - 1)..(d.y + 1) :
                    /\ DaysBeforeYear(y) <= thursday
                    /\ thursday < DaysBeforeYear(y + 1)
    IN  year * 100 + (thursday - DaysBeforeYear(year)) \div 7 + 1

\* C25: analyze_trends(period="week") has one row per ISO year-week of the
\* dated shipments, counting the shipments of that week (so two dated
\* shipments share a row exactly when they lie in the same ISO week), and
\* its rows are in ascending order of the period label.
C25_IsoWeekBuckets ==
    (last.op = "analyze_trends" /\ last.period = "week") =>
        LET dated == SelectSeq(PackagesOf(engines[last.engine]),
                               LAMBDA p : p.shipment_date # NaT)
            weeks == SeqOfSet({IsoWeekOf(dated[i].shipment_date) :
                                  i \in DOMAIN dated})
        IN  /\ Len(last.result) = Len(weeks)
            /\ \A n \in DOMAIN last.result :
                  /\ last.result[n].package_count =
                         Cardinality({ i \in DOMAIN dated :
                             IsoWeekOf(dated[i].shipment_date) = weeks[n] })
                  /\ n > 1 => last.result[n - 1].period < last.result[n].period

\* ------------------------------------------------------------------------
\* Claims C26-C27 (SpecCriteria): filtered engines against the original
\* ------------------------------------------------------------------------

\* C26: whatever the filter arguments, every tracking number of the
\* filtered engine's shipment table is a tracking number of the shipment
\* table of the engine filter_data was called on.
C26_NoNewShipment ==
    Len(engines) = 2 =>
        TrackingIn(PackagesOf(engines[2]))
            \subseteq TrackingIn(_aggregate_packages(engines[2].source))

\* The later of two start dates and the earlier of two end dates, a date
\* that is not given leaving the other.
LaterDate(a, b) ==
    IF a = NaT THEN b ELSE IF b = NaT THEN a
    ELSE IF DateOrd(a) >= DateOrd(b) THEN a ELSE b

EarlierDate(a, b) ==
    IF a = NaT THEN b ELSE IF b = NaT THEN a
    ELSE IF DateOrd(a) <= DateOrd(b) THEN a ELSE b

\* The values two lists both allow, a list that is not given allowing all.
BothAllow(a, b) == IF a = {} THEN b ELSE IF b = {} THEN a ELSE a \cap b

\* The arguments that ask for the criteria of a and those of b together.
Conjunction(a, b) ==
    [ start_date |-> LaterDate(a.start_date, b.start_date),
      end_date |-> EarlierDate(a.end_date, b.end_date),
      countries |-> BothAllow(a.countries, b.countries),
      services |-> BothAllow(a.services, b.services),
      returns_only |-> a.returns_only \/ b.returns_only ]

\* The conjunction of a and b can be handed to filter_data: where both give
\* a list, the lists share a value (an empty list is no criterion).
Expressible(a, b) ==
    /\ (a.countries # {} /\ b.countries # {}) => a.countries \cap b.countries # {}
    /\ (a.services # {} /\ b.services # {}) => a.services \cap b.services # {}

\* A step that calls filter_data(b) on the engine that filter_data(a) on
\* the original engine returned.
SecondFilter ==
    /\ Len(engines) = 2
    /\ engines[2].parent = 1
    /\ last'.op = "filter_data"
    /\ last'.engine = 2

\* C27 as stated: filter_data(a).filter_data(b), filter_data(b)
\* .filter_data(a) and one filter_data call with the conjunction of a and b
\* wrap the same charge lines in the same order, and filter_data(a) applied
\* twice is filter_data(a) applied once.
C27_ComposeCommuteConjoin ==
    [][ SecondFilter =>
          LET a == engines[2].args
              b == last'.args
              df == engines[1].data
          IN  /\ engines'[2].data = filter_data(filter_data(df, b), a)
              /\ engines'[2].data = filter_data(df, Conjunction(a, b))
              /\ a = b => engines'[2].data = engines[2].data ]_vars

\* C27 amended: the two orders give the same charge lines in the same
\* order and a filter applied twice is the filter applied once; one call
\* with the conjunction gives the same lines when the conjunction can be
\* handed over, that is when the country lists, and the service lists, of
\* a and b share a value wherever both are given.
C27_ComposeCommute ==
    [][ SecondFilter =>
          LET a == engines[2].args
              b == last'.args
              df == engines[1].data
          IN  /\ engines'[2].data = filter_data(filter_data(df, b), a)
              /\ Expressible(a, b) =>
                     engines'[2].data = filter_data(df, Conjunction(a, b))
              /\ a = b => engines'[2].data = engines[2].data ]_vars

\* C27 witness: a second filter by country on an engine filtered by end
\* date, which keeps some of the lines the first filter kept and drops
\* others.
C27_Witness ==
    /\ Len(engines) = 2
    /\ engines[2].parent = 2
    /\ last.op = "filter_data"
    /\ engines[2].args.countries = {"FR"}
    /\ engines[2].data # <<>>
    /\ Len(engines[2].data) < Len(engines[2].source)
    /\ Len(engines[2].source) < Len(engines[1].data)

\* ------------------------------------------------------------------------
\* Claim C28 (SpecMoney): the cost breakdown as a partition
\* ------------------------------------------------------------------------

\* C28: every charge line, a line without charge category included, is
\* counted in exactly one row of analyze_cost_breakdown(), and the rows'
\* total_charge sums to the total_charge of the whole charge-line table.
C28_BreakdownPartition ==
    last.op = "analyze_cost_breakdown" =>
        LET df == engines[last.engine].data
        IN  /\ \A k \in DOMAIN df :
                  Cardinality({ n \in DOMAIN last.result :
                      Same(last.result[n].charge_category,
                           df[k].charge_category) }) = 1
            /\ TotalOfRows(last.result) = TotalOfRows(df)

\* ------------------------------------------------------------------------
\* Specification for the rollup by service: descriptor rows with and
\* without charge description and service code.
\* ------------------------------------------------------------------------

ByServiceRows ==
    { [DefaultRow EXCEPT !.tracking_number = t, !.charge_description = k[1],
                         !.service_code = k[2]] :
        t \in {"1Z001", "1Z999"},
        k \in { <<"TB Standard", "004">>, <<"WW Standard", "007">>,
                <<NaN, "004">>, <<"TB Standard", NaN>> } }

InitByService == InitWith(FilesOf(ByServiceRows, FullWidth))

NextByService ==
    \/ ParseCsvContent
    \/ NewAnalyzer
    \/ AnalyzeServices(1)

SpecByService == InitByService /\ [][NextByService]_vars

\* C29: the rows of analyze_services() account for every shipment, one
\* without service code or service name included: their package_count
\* sums to the number of rows of the shipment table and their total_cost
\* to the shipment table's total_charge.
C29_ServicesAccountForAll ==
    last.op = "analyze_services" =>
        LET packages == PackagesOf(engines[last.engine])
        IN  /\ SumSeq(Column(last.result, "package_count")) = Len(packages)
            /\ SumSeq(Column(last.result, "total_cost")) = TotalOfRows(packages)

\* ------------------------------------------------------------------------
\* Specification for the accessors after parse calls: one normalizer,
\* parse_file and parse_multiple_files in any order, and the accessors.
\* ------------------------------------------------------------------------

NextAccessors ==
    \/ ParseMultipleFiles
    \/ \E k \in 1..MaxFiles : ParseFile(k)
    \/ GetPackages
    \/ GetChargeBreakdown

SpecAccessors == InitBatch /\ [][NextAccessors]_vars

\* C30: an accessor called after parse_multiple_files has returned, whatever
\* was parsed before, reads the table that call returned: the combined
\* table of the files that parsed, and the empty table when every file
\* failed; never the rows of an earlier call or of one file of the batch.
C30_AccessorsReadLastParse ==
    [][ last.op = "parse_multiple_files" =>
          LET returned == [set |-> TRUE, table |-> last.result]
          IN  /\ last'.op = "get_packages" =>
                    last'.result = get_packages(returned)
              /\ last'.op = "get_charge_breakdown" =>
                    last'.result = get_charge_breakdown(returned) ]_vars

=============================================================================
